---- MODULE Spec2Model ----
(***************************************************************************)
(* MazeGenerator (client/src/utils/MazeGenerator.ts): the seeded random    *)
(* source, the four carving algorithms, boundary enforcement, connectivity *)
(* repair and the placement planner, as a state machine whose actions are *)
(* the steps of generateMaze.                                              *)
(*                                                                         *)
(* A layout is a JavaScript array of rows.  A row is an object whose       *)
(* integer-keyed properties are the tiles; its length is one more than the *)
(* largest non-negative key.  Writing layout[y][x] with x outside the row  *)
(* adds a property (and may lengthen the row); writing or reading          *)
(* layout[y][..] with y outside 0..height-1 raises a TypeError.  The model *)
(* keeps a layout as [h, cells] with cells a function from <<x, y>> to the *)
(* tile stored there, and an absent key for an absent property.            *)
(***************************************************************************)
EXTENDS Integers, Sequences, FiniteSets, TLC

\* ---------------------------------------------------------------- bounds
\* Explicit constructor seeds are 0..MaxSeed, -MinSeed and 1-MinSeed.  From
\* -MinSeed down the first state of the random source is below 0.
MaxSeed == 4
MinSeed == 6
\* The grids generateDoorPositions is applied to on its own have
\* DoorGridFloors FLOOR cells at most.
DoorGridFloors == 4
\* Widths and heights are MaxDim-DimSpan..MaxDim.
MaxDim == 6
DimSpan == 2

\* ------------------------------------------------------ program constants
WALL == 1
FLOOR == 2
DOOR == 5
Modulus == 233280
Multiplier == 9301
Increment == 49297

\* The value of a missing option, a missing property, a value never set.
Undefined == 0 - 1

Vec(x, y) == [x |-> x, y |-> y]

Abs(n) == IF n < 0 THEN 0 - n ELSE n

Manhattan(a, b) == Abs(a.x - b.x) + Abs(a.y - b.y)

Max2(a, b) == IF a >= b THEN a ELSE b

\* ---------------------------------------------------------- random source
\* state = (state * 9301 + 49297) % 233280, with JavaScript's remainder (the
\* sign of the dividend).  The product is split so that no intermediate value
\* leaves 32 bits; the value is the same.
LcgStep(state) ==
    LET m == state % Modulus
        hi == (Multiplier \div 1000) * 1000
        lo == Multiplier % 1000
        r == (((m * hi) % Modulus) + m * lo + Increment) % Modulus
    IN  IF state >= 0 - (Increment \div Multiplier) \/ r = 0 THEN r ELSE r - Modulus

\* Math.floor(rng() * n) for the state the call to rng() left: the value
\* returned is state / 233280.
RandomIndex(state, n) == (state * n) \div Modulus

\* rng() < density, density given in hundredths.
RandomBelow(state, densityPct) == state * 100 < densityPct * Modulus

\* ----------------------------------------------------------------- layout
Get(layout, x, y) ==
    IF <<x, y>> \in DOMAIN layout.cells THEN layout.cells[<<x, y>>] ELSE Undefined

Put(layout, x, y, tile) ==
    [layout EXCEPT !.cells = (<<x, y>> :> tile) @@ layout.cells]

RowExists(layout, y) == y >= 0 /\ y < layout.h

\* layout[y].length
RowLength(layout, y) ==
    LET xs == {p[1] : p \in {q \in DOMAIN layout.cells : q[2] = y /\ q[1] >= 0}}
    IN  IF xs = {} THEN 0 ELSE 1 + (CHOOSE m \in xs : \A x \in xs : x <= m)

\* The function f with every value computed (TLC otherwise keeps the
\* expression and evaluates it again at each application).
Explicit(f) == f @@ << >>

\* for y < height, for x < width: layout[y][x] = tile
FilledLayout(width, height, tile) ==
    [h |-> height,
     cells |-> Explicit([p \in (0 .. width - 1) \X (0 .. height - 1) |-> tile])]

\* Several writes of one tile, none outside the rows.
PutAll(layout, points, tile) ==
    [layout EXCEPT !.cells = [p \in points |-> tile] @@ layout.cells]

\* -------------------------------------------------- recursive backtracking
Directions == << Vec(0, 0 - 2), Vec(2, 0), Vec(0, 2), Vec(0 - 2, 0) >>

\* connectRoomToMaze: the candidate connections in the order the two loops
\* push them, then one of them carved.  A read of a row outside the layout
\* raises a TypeError.
RECURSIVE TopBottomConnections(_, _, _, _, _, _)
TopBottomConnections(layout, x, roomX, roomY, roomWidth, roomHeight) ==
    IF x >= roomX + roomWidth THEN << >>
    ELSE LET top == IF roomY > 1 /\ Get(layout, x, roomY - 2) = FLOOR
                    THEN << Vec(x, roomY - 1) >> ELSE << >>
             bottom == IF roomY + roomHeight < layout.h - 1
                          /\ Get(layout, x, roomY + roomHeight + 1) = FLOOR
                       THEN << Vec(x, roomY + roomHeight) >> ELSE << >>
         IN  top \o bottom
             \o TopBottomConnections(layout, x + 1, roomX, roomY, roomWidth, roomHeight)

RECURSIVE LeftRightConnections(_, _, _, _, _, _)
LeftRightConnections(layout, y, roomX, roomY, roomWidth, roomHeight) ==
    IF y >= roomY + roomHeight THEN << >>
    ELSE LET left == IF roomX > 1 /\ Get(layout, roomX - 2, y) = FLOOR
                     THEN << Vec(roomX - 1, y) >> ELSE << >>
             right == IF roomX + roomWidth < RowLength(layout, 0) - 1
                         /\ Get(layout, roomX + roomWidth + 1, y) = FLOOR
                      THEN << Vec(roomX + roomWidth, y) >> ELSE << >>
         IN  left \o right
             \o LeftRightConnections(layout, y + 1, roomX, roomY, roomWidth, roomHeight)

\* The rows connectRoomToMaze reads that do not exist.
ConnectReadsMissingRow(layout, roomX, roomY, roomWidth, roomHeight) ==
    \/ /\ roomWidth >= 1
       /\ \/ roomY > 1 /\ ~RowExists(layout, roomY - 2)
          \/ roomY + roomHeight < layout.h - 1
             /\ ~RowExists(layout, roomY + roomHeight + 1)
    \/ /\ roomX > 1 \/ roomX + roomWidth < RowLength(layout, 0) - 1
       /\ \E y \in roomY .. roomY + roomHeight - 1 : ~RowExists(layout, y)

connectRoomToMaze(layout, rng, roomX, roomY, roomWidth, roomHeight) ==
    IF ConnectReadsMissingRow(layout, roomX, roomY, roomWidth, roomHeight)
    THEN [layout |-> layout, rng |-> rng, threw |-> TRUE]
    ELSE
    LET connections ==
            TopBottomConnections(layout, roomX, roomX, roomY, roomWidth, roomHeight)
            \o LeftRightConnections(layout, roomY, roomX, roomY, roomWidth, roomHeight)
    IN  IF Len(connections) > 0
        THEN LET r == LcgStep(rng)
                 i == RandomIndex(r, Len(connections))
             IN  IF i < 0 \/ i >= Len(connections) \/ ~RowExists(layout, connections[i + 1].y)
                 THEN [layout |-> layout, rng |-> r, threw |-> TRUE]
                 ELSE [layout |-> Put(layout, connections[i + 1].x, connections[i + 1].y, FLOOR),
                       rng |-> r, threw |-> FALSE]
        ELSE [layout |-> layout, rng |-> rng, threw |-> FALSE]

\* One turn of the loop of addRandomRooms: the room drawn, carved row after
\* row and connected.  The carving raises a TypeError at the first row
\* outside the layout.
RoomTurn(layout, rng, width, height, minSize, maxSize) ==
    LET r1 == LcgStep(rng)
        roomWidth == minSize + RandomIndex(r1, maxSize - minSize + 1)
        r2 == LcgStep(r1)
        roomHeight == minSize + RandomIndex(r2, maxSize - minSize + 1)
        r3 == LcgStep(r2)
        roomX == 1 + RandomIndex(r3, width - roomWidth - 2)
        r4 == LcgStep(r3)
        roomY == 1 + RandomIndex(r4, height - roomHeight - 2)
        rows == IF roomWidth >= 1 THEN roomY .. roomY + roomHeight - 1 ELSE {}
        written == IF roomY < 0 THEN {}
                   ELSE (roomX .. roomX + roomWidth - 1) \X {y \in rows : y < height}
        carved == PutAll(layout, written, FLOOR)
        room == [x |-> roomX, y |-> roomY, width |-> roomWidth, height |-> roomHeight]
    IN  IF \E y \in rows : ~RowExists(layout, y)
        THEN [layout |-> carved, rng |-> r4, threw |-> TRUE, room |-> room]
        ELSE LET c == connectRoomToMaze(carved, r4, roomX, roomY, roomWidth, roomHeight)
             IN  [layout |-> c.layout, rng |-> c.rng, threw |-> c.threw, room |-> room]

\* The loop of addRandomRooms, from room i on; width and height are read
\* once, before the loop.
RECURSIVE RoomLoop(_, _, _, _, _, _, _, _)
RoomLoop(layout, rng, width, height, minSize, maxSize, count, i) ==
    IF i >= count THEN [layout |-> layout, rng |-> rng, threw |-> FALSE]
    ELSE
    LET turn == RoomTurn(layout, rng, width, height, minSize, maxSize)
    IN  IF turn.threw
        THEN [layout |-> turn.layout, rng |-> turn.rng, threw |-> TRUE]
        ELSE RoomLoop(turn.layout, turn.rng, width, height, minSize, maxSize, count,
                      i + 1)

addRandomRooms(layout, rng, minSize, maxSize, count) ==
    RoomLoop(layout, rng, RowLength(layout, 0), layout.h, minSize, maxSize, count, 0)

\* CarveStep without the write of line 172, which opens the cell between
\* current and next: what a statement that the maze is connected must tell
\* from the code.
CarveStepNoPassage(st, width, height) ==
    LET current == st.stack[Len(st.stack)]
        cand == [k \in 1 .. 4 |-> Vec(current.x + Directions[k].x, current.y + Directions[k].y)]
        ok(p) == /\ p.x > 0 /\ p.x < width - 1
                 /\ p.y > 0 /\ p.y < height - 1
                 /\ p \notin st.visited
        neighbors == SelectSeq(cand, ok)
        r == LcgStep(st.rng)
        i == RandomIndex(r, Len(neighbors))
        next == neighbors[i + 1]
    IN  IF Len(neighbors) = 0
        THEN [st EXCEPT !.stack = SubSeq(st.stack, 1, Len(st.stack) - 1)]
        ELSE IF i < 0 \/ i >= Len(neighbors)
        THEN [st EXCEPT !.rng = r, !.threw = TRUE]
        ELSE [layout |-> Put(st.layout, next.x, next.y, FLOOR),
              rng |-> r,
              stack |-> Append(st.stack, next),
              visited |-> st.visited \cup {next},
              threw |-> FALSE]

\* CarveStep without the pop of a cell that has no unvisited neighbour: what
\* a statement that the loop ends must tell from the code.
CarveStepNoPop(st, width, height) ==
    LET current == st.stack[Len(st.stack)]
        cand == [k \in 1 .. 4 |-> Vec(current.x + Directions[k].x, current.y + Directions[k].y)]
        ok(p) == /\ p.x > 0 /\ p.x < width - 1
                 /\ p.y > 0 /\ p.y < height - 1
                 /\ p \notin st.visited
        neighbors == SelectSeq(cand, ok)
        r == LcgStep(st.rng)
        i == RandomIndex(r, Len(neighbors))
        next == neighbors[i + 1]
        wallX == current.x + (next.x - current.x) \div 2
        wallY == current.y + (next.y - current.y) \div 2
    IN  IF Len(neighbors) = 0
        THEN st
        ELSE IF i < 0 \/ i >= Len(neighbors)
        THEN [st EXCEPT !.rng = r, !.threw = TRUE]
        ELSE [layout |-> Put(Put(st.layout, wallX, wallY, FLOOR), next.x, next.y, FLOOR),
              rng |-> r,
              stack |-> Append(st.stack, next),
              visited |-> st.visited \cup {next},
              threw |-> FALSE]

\* One turn of the while loop of generateRecursiveBacktracking: st holds the
\* layout, the random state, the stack, the visited cells and whether the turn
\* raised a TypeError.
CarveStep(st, width, height) ==
    LET current == st.stack[Len(st.stack)]
        cand == [k \in 1 .. 4 |-> Vec(current.x + Directions[k].x, current.y + Directions[k].y)]
        ok(p) == /\ p.x > 0 /\ p.x < width - 1
                 /\ p.y > 0 /\ p.y < height - 1
                 /\ p \notin st.visited
        neighbors == SelectSeq(cand, ok)
        r == LcgStep(st.rng)
        i == RandomIndex(r, Len(neighbors))
        next == neighbors[i + 1]
        wallX == current.x + (next.x - current.x) \div 2
        wallY == current.y + (next.y - current.y) \div 2
    IN  IF Len(neighbors) = 0
        THEN [st EXCEPT !.stack = SubSeq(st.stack, 1, Len(st.stack) - 1)]
        ELSE IF i < 0 \/ i >= Len(neighbors)
        THEN [st EXCEPT !.rng = r, !.threw = TRUE]
        ELSE [layout |-> Put(Put(st.layout, wallX, wallY, FLOOR), next.x, next.y, FLOOR),
              rng |-> r,
              stack |-> Append(st.stack, next),
              visited |-> st.visited \cup {next},
              threw |-> FALSE]

\* while (stack.length > 0): at most n turns, halved so that the evaluation
\* nests no deeper than log n.
RECURSIVE CarveLoop(_, _, _, _)
CarveLoop(st, n, width, height) ==
    IF n <= 0 \/ Len(st.stack) = 0 \/ st.threw THEN st
    ELSE IF n = 1 THEN CarveStep(st, width, height)
    ELSE CarveLoop(CarveLoop(st, n \div 2, width, height), n - (n \div 2), width, height)

\* options.x || d
OrDefault(value, default) == IF value = Undefined \/ value = 0 THEN default ELSE value

\* The locals when the while loop starts: every cell WALL but (1, 1), which
\* is on the stack and visited.
CarveStart(options, rng) ==
    [layout |-> Put(FilledLayout(options.width, options.height, WALL), 1, 1, FLOOR),
     rng |-> rng,
     stack |-> << Vec(1, 1) >>,
     visited |-> {Vec(1, 1)},
     threw |-> FALSE]

\* Every cell is pushed once and popped once: 2 * width * height turns end
\* the loop.
generateRecursiveBacktracking(options, rng) ==
    LET start == CarveStart(options, rng)
        carved == CarveLoop(start, 2 * options.width * options.height,
                            options.width, options.height)
    IN  IF carved.threw
        THEN [layout |-> carved.layout, rng |-> carved.rng, threw |-> TRUE]
        ELSE addRandomRooms(carved.layout, carved.rng,
                            OrDefault(options.minRoomSize, 3),
                            OrDefault(options.maxRoomSize, 7),
                            OrDefault(options.roomCount, 3))

\* ------------------------------------------------------ cellular automata
\* The states the next n calls of rng() leave, in order.
RECURSIVE RandomStream(_, _)
RandomStream(rng, n) ==
    IF n <= 0 THEN << >>
    ELSE IF n = 1 THEN << LcgStep(rng) >>
    ELSE LET first == RandomStream(rng, n \div 2)
         IN  first \o RandomStream(first[Len(first)], n - (n \div 2))

\* The random fill of generateCellularAutomata: row by row, one rng() a cell.
RandomFill(rng, width, height, densityPct) ==
    LET stream == RandomStream(rng, width * height)
    IN  [layout |->
            [h |-> height,
             cells |-> Explicit([p \in (0 .. width - 1) \X (0 .. height - 1) |->
                          IF RandomBelow(stream[p[2] * width + p[1] + 1], densityPct)
                          THEN WALL ELSE FLOOR])],
         rng |-> IF width * height > 0 THEN stream[width * height] ELSE rng]

Offsets == (0 - 1 .. 1) \X (0 - 1 .. 1)

applyCellularAutomataRules(layout, width, height) ==
    LET wallCount(x, y) ==
            Cardinality({d \in Offsets :
                \/ x + d[1] < 0 \/ x + d[1] >= width
                \/ y + d[2] < 0 \/ y + d[2] >= height
                \/ Get(layout, x + d[1], y + d[2]) = WALL})
    IN  [h |-> height,
         cells |-> Explicit([p \in (0 .. width - 1) \X (0 .. height - 1) |->
                                IF wallCount(p[1], p[2]) >= 5 THEN WALL ELSE FLOOR])]

\* for (i = 0; i < iterations; i++) layout = applyCellularAutomataRules(...);
\* a layout without rows is its own successor.
RECURSIVE Iterate(_, _, _, _)
Iterate(layout, n, width, height) ==
    IF n <= 0 \/ layout.h = 0 THEN layout
    ELSE Iterate(applyCellularAutomataRules(layout, width, height), n - 1, width, height)

\* One turn of the while loop of floodFill: st holds the stack, the visited
\* cells and the region in the order its cells were popped.
FloodStep(layout, firstRowLength, st) ==
    LET p == st.stack[Len(st.stack)]
        rest == SubSeq(st.stack, 1, Len(st.stack) - 1)
    IN  IF \/ p.x < 0 \/ p.x >= firstRowLength
           \/ p.y < 0 \/ p.y >= layout.h
           \/ p \in st.visited
           \/ Get(layout, p.x, p.y) # FLOOR
        THEN [st EXCEPT !.stack = rest]
        ELSE [stack |-> rest \o << Vec(p.x + 1, p.y), Vec(p.x - 1, p.y),
                                   Vec(p.x, p.y + 1), Vec(p.x, p.y - 1) >>,
              visited |-> st.visited \cup {p},
              region |-> Append(st.region, p)]

RECURSIVE FloodLoop(_, _, _, _)
FloodLoop(layout, firstRowLength, st, n) ==
    IF n <= 0 \/ Len(st.stack) = 0 THEN st
    ELSE IF n = 1 THEN FloodStep(layout, firstRowLength, st)
    ELSE FloodLoop(layout, firstRowLength,
                   FloodLoop(layout, firstRowLength, st, n \div 2), n - (n \div 2))

\* A cell is pushed at the start or by one of the four pushes of a cell of
\* the region: 4 * cells + 1 turns end the loop.
floodFill(layout, visited, startX, startY) ==
    LET firstRowLength == RowLength(layout, 0)
    IN  FloodLoop(layout, firstRowLength,
                  [stack |-> << Vec(startX, startY) >>, visited |-> visited,
                   region |-> << >>],
                  4 * firstRowLength * layout.h + 1)

\* The scan of ensureConnectivity: a flood fill starts at each floor cell not
\* yet visited, that is, at the first such cell in scan order after the fill
\* before.  st holds the visited cells and the regions of more than ten
\* cells, in the order found.
RECURSIVE FindRegions(_, _)
FindRegions(layout, st) ==
    LET width == RowLength(layout, 0)
        starts == {k \in 0 .. width * layout.h - 1 :
                      /\ Get(layout, k % width, k \div width) = FLOOR
                      /\ Vec(k % width, k \div width) \notin st.visited}
        k == CHOOSE m \in starts : \A n \in starts : m <= n
        f == floodFill(layout, st.visited, k % width, k \div width)
    IN  IF starts = {} THEN st
        ELSE FindRegions(layout,
                         [visited |-> f.visited,
                          regions |-> IF Len(f.region) > 10
                                      THEN Append(st.regions, f.region)
                                      ELSE st.regions])

\* carveConnection: the cells of the path, horizontal first.
Between(a, b) == IF a <= b THEN a .. b ELSE b .. a

\* carveConnection without its second loop, the vertical leg: what a
\* statement that the regions end up connected must tell from the code.
carveConnectionHorizontal(layout, start, end) ==
    PutAll(layout, {<<x, start.y>> : x \in Between(start.x, end.x)}, FLOOR)

carveConnection(layout, start, end) ==
    PutAll(layout,
           {<<x, start.y>> : x \in Between(start.x, end.x)}
           \cup {<<end.x, y>> : y \in Between(start.y, end.y)},
           FLOOR)

\* ClosestPair without the comparison of distances: the first cell of each
\* region.  What a statement that the pair is a closest one must tell from the
\* code.
FirstPair(region1, region2) == [p1 |-> region1[1], p2 |-> region2[1]]

\* connectRegions: the first pair, in the order of the two loops, that no
\* other pair is closer than.
ClosestPair(region1, region2) ==
    LET pairs == (1 .. Len(region1)) \X (1 .. Len(region2))
        dist(q) == Manhattan(region1[q[1]], region2[q[2]])
        before(q, t) == q[1] < t[1] \/ (q[1] = t[1] /\ q[2] < t[2])
        best == CHOOSE q \in pairs :
                    \A t \in pairs : dist(q) < dist(t) \/ (dist(q) = dist(t) /\ ~before(t, q))
    IN  [p1 |-> region1[best[1]], p2 |-> region2[best[2]]]

connectRegions(layout, region1, region2) ==
    LET best == ClosestPair(region1, region2)
    IN  carveConnection(layout, best.p1, best.p2)

RECURSIVE ConnectAll(_, _, _)
ConnectAll(layout, regions, i) ==
    IF i > Len(regions) THEN layout
    ELSE ConnectAll(connectRegions(layout, regions[1], regions[i]), regions, i + 1)

ensureConnectivity(layout) ==
    LET regions == FindRegions(layout, [visited |-> {}, regions |-> << >>]).regions
    IN  IF Len(regions) > 1 THEN ConnectAll(layout, regions, 2) ELSE layout

\* options.density and options.iterations default only when undefined.
IfUndefined(value, default) == IF value = Undefined THEN default ELSE value

\* The grid ensureConnectivity is called on: the random fill after the
\* iterations of the rule.
SmoothedAutomata(options, rng) ==
    LET filled == RandomFill(rng, options.width, options.height,
                             IfUndefined(options.density, 45))
    IN  [layout |-> Iterate(filled.layout, IfUndefined(options.iterations, 5),
                            options.width, options.height),
         rng |-> filled.rng]

generateCellularAutomata(options, rng) ==
    LET smoothed == SmoothedAutomata(options, rng)
    IN  [layout |-> ensureConnectivity(smoothed.layout), rng |-> smoothed.rng,
         threw |-> FALSE]

\* ------------------------------------------------------------ binary tree
\* The lattice cells in the order of the two loops, from cell (x, y) on.
RECURSIVE BinaryTreeLoop(_, _, _, _, _, _)
BinaryTreeLoop(layout, rng, x, y, width, height) ==
    IF y >= height - 1 THEN [layout |-> layout, rng |-> rng, threw |-> FALSE]
    ELSE IF x >= width - 1 THEN BinaryTreeLoop(layout, rng, 1, y + 2, width, height)
    ELSE
    LET floor == Put(layout, x, y, FLOOR)
        directions == (IF y > 1 THEN << Vec(0, 0 - 1) >> ELSE << >>)
                      \o (IF x > 1 THEN << Vec(0 - 1, 0) >> ELSE << >>)
    IN  IF Len(directions) > 0
        THEN LET r == LcgStep(rng)
                 i == RandomIndex(r, Len(directions))
             IN  IF i < 0 \/ i >= Len(directions)
                 THEN [layout |-> floor, rng |-> r, threw |-> TRUE]
                 ELSE BinaryTreeLoop(Put(floor, x + directions[i + 1].x,
                                         y + directions[i + 1].y, FLOOR),
                                     r, x + 2, y, width, height)
        ELSE BinaryTreeLoop(floor, rng, x + 2, y, width, height)

generateBinaryTree(options, rng) ==
    BinaryTreeLoop(FilledLayout(options.width, options.height, WALL), rng, 1, 1,
                   options.width, options.height)

\* ------------------------------------------------------------ noise caves
\* floor(10^6 * (noise(0.1x, 0.1y) + 0.5 noise(0.05x, 0.05y) + 0.25 noise(0.2x, 0.2y)))
\* with noise(x, y) = frac(sin(12.9898 x + 78.233 y + seed) * 43758.5453), in
\* IEEE double arithmetic: NoiseMicro[seed][y + 1][x + 1] for the seeds and the
\* cells of this model.  No entry is within 10^-6 of a density in hundredths.
NoiseMicro ==
  <<
    << << 955862, 768657, 449508, 911175, 351761, 921552, 1186299, 603337 >>,
       << 595516, 894537, 1299664, 977655, 822997, 1170425, 682833, 874236 >>,
       << 857662, 1492788, 1253925, 1427639, 1267347, 735135, 1312467, 616108 >>,
       << 1358328, 977786, 983233, 1211587, 463651, 343126, 1293154, 453616 >>,
       << 791611, 370484, 1377875, 608012, 888840, 518245, 978908, 734737 >>,
       << 1043107, 1187767, 742548, 990940, 521355, 1134194, 483954, 593340 >>,
       << 986729, 735007, 1214049, 888990, 1331784, 698639, 658422, 996939 >>,
       << 1131675, 498535, 1240069, 673370, 619437, 1081129, 1197240, 107324 >> >>,
    << << 932125, 534323, 1020051, 1114367, 1292097, 718642, 1405584, 818509 >>,
       << 673560, 720997, 933811, 612195, 1166302, 923664, 727019, 777553 >>,
       << 861990, 571864, 341813, 657619, 746812, 1533883, 807371, 586671 >>,
       << 949495, 504107, 1459110, 1524552, 634653, 1164559, 1241483, 1230171 >>,
       << 1037212, 1175583, 484525, 666092, 514679, 887861, 988933, 1259405 >>,
       << 631726, 951082, 1102642, 1152830, 282289, 841181, 856891, 933106 >>,
       << 754406, 1043481, 467306, 1310828, 1567400, 783530, 1223279, 1085388 >>,
       << 1037543, 865848, 760306, 1094645, 803769, 729846, 553444, 697768 >> >>,
    << << 360964, 1160805, 977877, 576722, 635389, 593614, 822347, 784070 >>,
       << 790814, 1061346, 1351962, 765780, 1083340, 689570, 965004, 1066588 >>,
       << 888795, 880753, 570476, 1300669, 1128547, 526789, 598884, 256069 >>,
       << 795510, 354926, 898837, 1218293, 867756, 375738, 746131, 215312 >>,
       << 621998, 778401, 470543, 917206, 508600, 1008060, 561086, 511104 >>,
       << 989237, 1355877, 992261, 804574, 1514358, 548372, 853800, 1008662 >>,
       << 599897, 451722, 754120, 1315251, 800405, 966176, 1003036, 525957 >>,
       << 732182, 1278977, 216475, 543659, 1092363, 1043522, 748587, 1027770 >> >>,
    << << 741520, 1141890, 1050110, 574435, 708343, 746591, 1268887, 991029 >>,
       << 509078, 545660, 928453, 956027, 433945, 717009, 414970, 848736 >>,
       << 480437, 378262, 634737, 1273354, 1185371, 608118, 1007899, 1390120 >>,
       << 515964, 1447755, 624236, 1339380, 1188962, 850705, 1160232, 943579 >>,
       << 1166645, 728179, 507473, 542922, 1187212, 1223806, 685898, 1497946 >>,
       << 1428932, 597017, 728842, 1005284, 1216464, 1255968, 1180633, 619484 >>,
       << 515103, 600043, 1284491, 640806, 639673, 1420992, 1247172, 576474 >>,
       << 431875, 505119, 258254, 970323, 1318623, 996850, 458120, 664467 >> >>,
    << << 1520203, 383721, 370812, 1134421, 608241, 712013, 1380579, 1003800 >>,
       << 797086, 1177896, 1285693, 1141233, 586506, 749507, 1130800, 709904 >>,
       << 876041, 474899, 1370799, 725869, 1465585, 1035849, 798030, 804551 >>,
       << 1275054, 1007742, 863606, 535315, 920469, 1092389, 541429, 1304821 >>,
       << 1200100, 1071409, 603643, 1266629, 732450, 325304, 1096800, 947010 >>,
       << 1161859, 1357335, 963406, 1411320, 502895, 1175028, 743567, 1109958 >>,
       << 761311, 757339, 835275, 1139150, 712956, 366821, 818070, 1260047 >>,
       << 693439, 1175390, 793939, 567143, 1141756, 1191969, 557436, 884145 >> >>,
    << << 322462, 986105, 1034046, 323776, 1112821, 411811, 624050, 817115 >>,
       << 1384381, 648307, 833982, 278781, 1143263, 999363, 928263, 624767 >>,
       << 965346, 770072, 852696, 1123312, 939818, 1023699, 537809, 887816 >>,
       << 258578, 1181962, 725818, 678562, 548025, 636078, 900240, 362618 >>,
       << 854341, 1057006, 859854, 827512, 750304, 758838, 908887, 953854 >>,
       << 1450384, 932955, 1282965, 1194580, 726360, 849599, 1327254, 1231776 >>,
       << 379048, 1551451, 1298142, 1694077, 1174154, 886394, 996590, 392472 >>,
       << 1108493, 655036, 904515, 513982, 415518, 1343722, 361265, 1173607 >> >>,
    << << 1361222, 1521637, 1323374, 540077, 1400223, 681530, 1126510, 490379 >>,
       << 397452, 715040, 1470148, 574454, 1471671, 697395, 563043, 294184 >>,
       << 693476, 397067, 1149466, 1238107, 1395618, 526345, 283929, 943358 >>,
       << 1231796, 492028, 1100894, 526562, 799407, 873936, 1218479, 929315 >>,
       << 1388153, 1347611, 416727, 708550, 1018474, 1206398, 1189957, 935577 >>,
       << 640168, 787260, 359372, 805664, 717195, 586957, 749356, 908630 >>,
       << 1217623, 793010, 833538, 558960, 611016, 1355292, 792088, 275025 >>,
       << 595481, 816017, 1117810, 1245429, 680521, 980991, 987254, 1062009 >> >>,
    << << 1535892, 550680, 331778, 194929, 289584, 513931, 86228, 857464 >>,
       << 641244, 352766, 565925, 753794, 886267, 809583, 488500, 1255228 >>,
       << 434879, 1083781, 964281, 501829, 441868, 506742, 619486, 996167 >>,
       << 850607, 635763, 1248823, 1108597, 1297659, 1311639, 1097699, 955049 >>,
       << 854765, 907173, 1387971, 1124286, 893969, 1375287, 614297, 1379380 >>,
       << 931372, 512618, 1157350, 247662, 806148, 369153, 479082, 1218137 >>,
       << 518917, 1249593, 742989, 875780, 1181471, 947342, 1371557, 742544 >>,
       << 984202, 484097, 657256, 453183, 1482324, 905161, 1363005, 843251 >> >>,
    << << 1234459, 1183205, 976049, 829999, 450545, 1394972, 685504, 1267946 >>,
       << 554539, 892773, 668881, 1099521, 1340974, 1450425, 479117, 762389 >>,
       << 574099, 692178, 414473, 1143137, 813750, 1034872, 1258194, 1469388 >>,
       << 1045706, 612550, 496805, 819236, 791932, 1101932, 458908, 940511 >>,
       << 1075215, 455884, 674000, 992866, 311639, 427845, 991288, 840911 >>,
       << 615948, 1184193, 719514, 1148882, 1102398, 435410, 1045428, 408955 >>,
       << 1220366, 767712, 929351, 532184, 774597, 1054162, 1250630, 1151556 >>,
       << 481497, 685889, 633693, 762008, 725977, 879748, 922831, 722294 >> >>
  >>

\* The same for the seeds below 0: NoiseMicroNegative[-seed][y + 1][x + 1].
NoiseMicroNegative ==
  <<
    << << 794137, 1152429, 1085527, 725420, 1173255, 1232005, 774365, 1582088 >>,
       << 442046, 64847, 1124617, 915102, 520205, 316129, 811484, 925174 >>,
       << 228574, 1351712, 159878, 636925, 801221, 1138634, 1361166, 533385 >>,
       << 860050, 309657, 1297595, 896343, 1140774, 626536, 1011879, 714334 >>,
       << 392326, 1111939, 1351777, 1182003, 526296, 759203, 338225, 887677 >>,
       << 963299, 1127107, 1245950, 1026811, 953416, 811036, 486542, 716169 >>,
       << 745395, 872510, 229774, 872767, 1168863, 591981, 1255262, 451781 >>,
       << 1449108, 963616, 1061397, 595769, 792317, 1177241, 778052, 1050290 >> >>,
    << << 817874, 1341274, 851230, 1100767, 1031794, 782431, 1525320, 1491111 >>,
       << 1254100, 197537, 735647, 928168, 907740, 962631, 1109498, 802060 >>,
       << 1653654, 945484, 220071, 898807, 575421, 378897, 1331843, 795480 >>,
       << 815970, 655133, 523129, 932106, 812624, 654391, 394952, 1060759 >>,
       << 1448507, 735548, 1042655, 841282, 760041, 1042553, 753771, 1121617 >>,
       << 1101105, 545371, 886015, 1603865, 545832, 959170, 1054461, 1365065 >>,
       << 947797, 943949, 421139, 773806, 752089, 649937, 1180572, 533015 >>,
       << 1044198, 1394297, 1596229, 907506, 1243231, 962856, 1162691, 566463 >> >>,
    << << 1389035, 1396227, 1016448, 1295523, 681873, 908164, 1319854, 1330098 >>,
       << 961213, 826703, 673701, 1206492, 485737, 303808, 963229, 385401 >>,
       << 1240624, 1191303, 1117189, 292581, 182971, 761854, 1044715, 1043888 >>,
       << 1146986, 749954, 1300069, 321857, 1129987, 850792, 1346172, 625248 >>,
       << 1126796, 1056430, 1032221, 1344022, 843672, 538100, 690557, 1145170 >>,
       << 1126077, 886998, 705536, 1075782, 800088, 1277607, 1461362, 1075805 >>,
       << 1490271, 1068900, 1025279, 808474, 1147796, 1066657, 587734, 1034006 >>,
       << 641971, 1105155, 1395355, 668803, 1115843, 489515, 1080908, 305471 >> >>,
    << << 1008479, 1138651, 650991, 415384, 732454, 1292807, 559456, 1234203 >>,
       << 1537030, 430965, 1371405, 1217889, 302183, 1061024, 1311497, 485025 >>,
       << 1394604, 1255363, 790169, 615034, 1023439, 926491, 666735, 784883 >>,
       << 1024889, 749128, 997901, 1226166, 1109400, 899255, 225628, 525281 >>,
       << 1395218, 739634, 1396570, 1197892, 1278189, 1086679, 606617, 1330961 >>,
       << 1331322, 679289, 1077300, 642625, 905894, 616794, 995531, 1129433 >>,
       << 695827, 1181678, 963790, 791303, 748078, 655075, 814133, 834785 >>,
       << 728335, 1151670, 1110387, 602731, 699899, 199086, 1290760, 746813 >> >>,
    << << 229796, 1074081, 1059043, 827290, 845457, 835182, 925958, 1408333 >>,
       << 519157, 1329065, 623766, 1193124, 1020691, 1044944, 1425708, 788521 >>,
       << 311808, 1220680, 1110147, 1356839, 850831, 666970, 1126947, 1098860 >>,
       << 532084, 969353, 932216, 798873, 658597, 885121, 511398, 853812 >>,
       << 1062588, 807207, 1306076, 521313, 1245508, 780106, 1274428, 507708 >>,
       << 976471, 574918, 1097497, 503434, 441584, 649108, 1378953, 1209827 >>,
       << 187446, 1119629, 803308, 324706, 588708, 608594, 834511, 649018 >>,
       << 758184, 1055062, 563432, 654234, 294404, 357345, 1286494, 537918 >> >>,
    << << 1427537, 1106062, 849874, 1466874, 710232, 1172709, 866321, 1170018 >>,
       << 1369079, 630677, 1237326, 1574427, 730959, 930536, 716577, 621572 >>,
       << 1364886, 515976, 1109866, 615578, 1559120, 1150304, 1151067, 378136 >>,
       << 997800, 680862, 307282, 938206, 750307, 927688, 1142156, 813200 >>,
       << 928445, 600008, 1147802, 294124, 1549995, 686570, 660874, 450569 >>,
       << 979933, 955052, 952015, 976269, 915096, 986123, 1113114, 978601 >>,
       << 1068603, 855385, 560921, 1508425, 309244, 787727, 1016676, 1166154 >>,
       << 1181865, 1184244, 1410491, 679022, 795499, 492129, 908583, 762914 >> >>,
    << << 388777, 1044257, 725908, 403787, 916684, 613676, 499311, 1009065 >>,
       << 546287, 777510, 543858, 1355442, 1011753, 1162419, 486367, 1232585 >>,
       << 1087302, 1227807, 1056599, 564169, 1040073, 359395, 1238547, 1315415 >>,
       << 931631, 1526627, 1287139, 1496738, 415541, 409858, 989270, 793846 >>,
       << 1416336, 957005, 1227160, 1085458, 813986, 1003010, 1023294, 1094938 >>,
       << 775553, 1063370, 938996, 1181737, 926385, 1444938, 590111, 518770 >>,
       << 1120124, 807016, 1393011, 308368, 805917, 1096141, 1266920, 1260230 >>,
       << 841585, 1021829, 1552917, 1187655, 909477, 993806, 543613, 396768 >> >>,
    << << 214107, 796972, 785498, 711463, 1058037, 1093419, 431266, 607184 >>,
       << 353335, 733777, 1362438, 960951, 740540, 1057658, 611134, 460033 >>,
       << 1010162, 858863, 948021, 744501, 1418220, 554929, 1042975, 422827 >>,
       << 664232, 842105, 915934, 1053655, 1324772, 1245578, 766052, 448277 >>,
       << 857575, 453713, 407342, 609728, 878917, 1183466, 316747, 310845 >>,
       << 814438, 1085829, 1143216, 1117169, 1407938, 1294283, 1177123, 868341 >>,
       << 1239525, 512641, 1022549, 769789, 800097, 718975, 1326459, 922866 >>,
       << 789714, 358129, 1348457, 1056466, 561242, 245597, 929574, 1064069 >> >>,
    << << 515540, 786402, 514986, 603545, 347678, 1273803, 460679, 738177 >>,
       << 1122407, 964827, 709254, 77882, 1105341, 1368082, 933132, 1266855 >>,
       << 1351581, 181171, 757633, 762760, 1007127, 627706, 236229, 1199438 >>,
       << 1085285, 411606, 133882, 1523873, 349318, 1021903, 637178, 949557 >>,
       << 1363755, 921480, 370343, 340877, 584773, 950011, 439971, 811368 >>,
       << 1358522, 859265, 917179, 997437, 1451597, 1207445, 337181, 564863 >>,
       << 1197632, 843068, 623936, 759408, 259639, 191279, 1558446, 720465 >>,
       << 369723, 1519797, 651864, 1072692, 464727, 1311592, 1304994, 566337 >> >>
  >>

\* combined > density, density given in hundredths.
NoiseAbove(seed, x, y, densityPct) ==
    LET table == IF seed < 0 THEN NoiseMicroNegative[0 - seed] ELSE NoiseMicro[seed]
    IN  table[y + 1][x + 1] >= densityPct * 10000

smoothCaves(layout) ==
    LET height == layout.h
        width == RowLength(layout, 0)
        wallCount(x, y) ==
            Cardinality({d \in Offsets : Get(layout, x + d[1], y + d[2]) = WALL})
    IN  [layout EXCEPT !.cells =
            [p \in (1 .. width - 2) \X (1 .. height - 2) |->
                IF wallCount(p[1], p[2]) >= 5 THEN WALL ELSE FLOOR] @@ layout.cells]

generatePerlinCaves(options, seed) ==
    LET noisy == [h |-> options.height,
                  cells |-> Explicit(
                      [p \in (0 .. options.width - 1) \X (0 .. options.height - 1) |->
                          IF NoiseAbove(seed, p[1], p[2], IfUndefined(options.density, 40))
                          THEN WALL ELSE FLOOR])]
    IN  smoothCaves(smoothCaves(smoothCaves(noisy)))

\* ------------------------------------------------------ boundary enforcer
ensureBoundaryWalls(layout) ==
    LET height == layout.h
        width == RowLength(layout, 0)
    IN  PutAll(layout,
               ((0 .. width - 1) \X {0, height - 1}) \cup ({0, width - 1} \X (0 .. height - 1)),
               WALL)

\* ------------------------------------------------------ placement planner
\* The positions a scan "for y, for x" visits, in order, for rows as long as
\* the longest row.
ScanOrder(layout) ==
    LET xs == {p[1] : p \in DOMAIN layout.cells}
        width == IF xs = {} THEN 0 ELSE 1 + (CHOOSE m \in xs : \A x \in xs : x <= m)
    IN  [k \in 1 .. width * layout.h |-> Vec((k - 1) % width, (k - 1) \div width)]

Range(seq) == {seq[i] : i \in 1 .. Len(seq)}

findFloorTiles(layout) ==
    LET isFloor(p) == Get(layout, p.x, p.y) = FLOOR
    IN  SelectSeq(ScanOrder(layout), isFloor)

\* A sample of generateSpawnPoints or generateKeySpawns: st holds the points
\* accepted so far, the random state, whether the slot is filled and whether
\* the sample raised a TypeError (tile undefined).
\* SpawnAttempt with the separation one short (minDistance 4): what the
\* separation of the accepted spawn points must tell from the code.
SpawnAttemptCloser(floorTiles, st) ==
    LET r == LcgStep(st.rng)
        i == RandomIndex(r, Len(floorTiles))
        tile == floorTiles[i + 1]
        tooClose == \E spawn \in Range(st.points) : Manhattan(spawn, tile) < 4
    IN  IF i < 0 \/ i >= Len(floorTiles)
        THEN [st EXCEPT !.rng = r, !.threw = TRUE]
        ELSE IF tile \notin Range(st.points) /\ ~tooClose
        THEN [st EXCEPT !.rng = r, !.points = Append(st.points, tile), !.filled = TRUE]
        ELSE [st EXCEPT !.rng = r]

SpawnAttempt(floorTiles, st) ==
    LET r == LcgStep(st.rng)
        i == RandomIndex(r, Len(floorTiles))
        tile == floorTiles[i + 1]
        tooClose == \E spawn \in Range(st.points) : Manhattan(spawn, tile) < 5
    IN  IF i < 0 \/ i >= Len(floorTiles)
        THEN [st EXCEPT !.rng = r, !.threw = TRUE]
        ELSE IF tile \notin Range(st.points) /\ ~tooClose
        THEN [st EXCEPT !.rng = r, !.points = Append(st.points, tile), !.filled = TRUE]
        ELSE [st EXCEPT !.rng = r]

\* while (!validSpawn && attempts < 100): at most n samples.
RECURSIVE SpawnAttempts(_, _, _)
SpawnAttempts(floorTiles, st, n) ==
    IF n <= 0 \/ st.filled \/ st.threw THEN st
    ELSE IF n = 1 THEN SpawnAttempt(floorTiles, st)
    ELSE SpawnAttempts(floorTiles, SpawnAttempts(floorTiles, st, n \div 2), n - (n \div 2))

\* for (i = 0; i < count && spawns.length < count; i++)
RECURSIVE SpawnSlots(_, _, _, _)
SpawnSlots(floorTiles, count, st, i) ==
    IF ~(i < count /\ Len(st.points) < count) \/ st.threw THEN st
    ELSE SpawnSlots(floorTiles, count,
                    SpawnAttempts(floorTiles, [st EXCEPT !.filled = FALSE], 100), i + 1)

\* A turn of the loop that fills the remaining slots with any unused floor
\* tile.
RelaxedAttempt(floorTiles, st) ==
    LET r == LcgStep(st.rng)
        i == RandomIndex(r, Len(floorTiles))
    IN  IF i < 0 \/ i >= Len(floorTiles)
        THEN [st EXCEPT !.rng = r, !.threw = TRUE]
        ELSE IF floorTiles[i + 1] \notin Range(st.points)
        THEN [st EXCEPT !.rng = r, !.points = Append(st.points, floorTiles[i + 1])]
        ELSE [st EXCEPT !.rng = r]

RECURSIVE RelaxedAttempts(_, _, _, _)
RelaxedAttempts(floorTiles, count, st, n) ==
    IF n <= 0 \/ st.threw \/ ~(Len(st.points) < count /\ Len(st.points) < Len(floorTiles))
    THEN st
    ELSE IF n = 1 THEN RelaxedAttempt(floorTiles, st)
    ELSE RelaxedAttempts(floorTiles, count,
                         RelaxedAttempts(floorTiles, count, st, n \div 2), n - (n \div 2))

\* while (spawns.length < count && spawns.length < floorTiles.length): the
\* loop has no bound of its own; the turns are taken a hundred at a time.
RECURSIVE SpawnRelaxed(_, _, _)
SpawnRelaxed(floorTiles, count, st) ==
    IF st.threw \/ ~(Len(st.points) < count /\ Len(st.points) < Len(floorTiles))
    THEN st
    ELSE SpawnRelaxed(floorTiles, count, RelaxedAttempts(floorTiles, count, st, 100))

\* constrained: how many of the spawns the constrained phase accepted.
\* The locals after the phase that keeps the spawn points apart.
ConstrainedSpawns(floorTiles, count, rng) ==
    SpawnSlots(floorTiles, count,
               [points |-> << >>, rng |-> rng, filled |-> FALSE, threw |-> FALSE], 0)

generateSpawnPoints(floorTiles, count, rng) ==
    LET first == ConstrainedSpawns(floorTiles, count, rng)
        all == SpawnRelaxed(floorTiles, count, first)
    IN  [spawns |-> all.points, constrained |-> Len(first.points),
         rng |-> all.rng, threw |-> all.threw]

\* KeyAttempt without the set of used tiles: what the distinctness of the
\* key spawns must tell from the code.
KeyAttemptAnyTile(floorTiles, spawnPoints, st) ==
    LET r == LcgStep(st.rng)
        i == RandomIndex(r, Len(floorTiles))
    IN  IF i < 0 \/ i >= Len(floorTiles)
        THEN [st EXCEPT !.rng = r, !.threw = TRUE]
        ELSE [st EXCEPT !.rng = r, !.points = Append(st.points, floorTiles[i + 1]),
                        !.filled = TRUE]

KeyAttempt(floorTiles, spawnPoints, st) ==
    LET r == LcgStep(st.rng)
        i == RandomIndex(r, Len(floorTiles))
    IN  IF i < 0 \/ i >= Len(floorTiles)
        THEN [st EXCEPT !.rng = r, !.threw = TRUE]
        ELSE IF floorTiles[i + 1] \notin Range(spawnPoints) \cup Range(st.points)
        THEN [st EXCEPT !.rng = r, !.points = Append(st.points, floorTiles[i + 1]),
                        !.filled = TRUE]
        ELSE [st EXCEPT !.rng = r]

RECURSIVE KeyAttempts(_, _, _, _)
KeyAttempts(floorTiles, spawnPoints, st, n) ==
    IF n <= 0 \/ st.filled \/ st.threw THEN st
    ELSE IF n = 1 THEN KeyAttempt(floorTiles, spawnPoints, st)
    ELSE KeyAttempts(floorTiles, spawnPoints,
                     KeyAttempts(floorTiles, spawnPoints, st, n \div 2), n - (n \div 2))

RECURSIVE KeySlots(_, _, _, _, _)
KeySlots(floorTiles, spawnPoints, count, st, i) ==
    IF ~(i < count /\ Len(st.points) < count) \/ st.threw THEN st
    ELSE KeySlots(floorTiles, spawnPoints, count,
                  KeyAttempts(floorTiles, spawnPoints, [st EXCEPT !.filled = FALSE], 100),
                  i + 1)

generateKeySpawns(floorTiles, spawnPoints, count, rng) ==
    LET st == KeySlots(floorTiles, spawnPoints, count,
                       [points |-> << >>, rng |-> rng, filled |-> FALSE, threw |-> FALSE], 0)
    IN  [keys |-> st.points, rng |-> st.rng, threw |-> st.threw]

\* The first scan of generateDoorPositions: interior walls with a floor beside.
HasAdjacentFloor(layout, firstRowLength, x, y) ==
    \E pos \in {<<x - 1, y>>, <<x + 1, y>>, <<x, y - 1>>, <<x, y + 1>>} :
        /\ pos[1] >= 0 /\ pos[1] < firstRowLength
        /\ pos[2] >= 0 /\ pos[2] < layout.h
        /\ Get(layout, pos[1], pos[2]) = FLOOR

DoorCandidates(layout) ==
    LET lengths == [y \in 0 .. layout.h - 1 |-> RowLength(layout, y)]
        candidate(p) == /\ p.y >= 1 /\ p.y < layout.h - 1
                        /\ p.x >= 1 /\ p.x < lengths[p.y] - 1
                        /\ Get(layout, p.x, p.y) = WALL
                        /\ HasAdjacentFloor(layout, lengths[0], p.x, p.y)
    IN  SelectSeq(ScanOrder(layout), candidate)

\* FallbackDoors with the scan starting one cell from the edge instead of
\* two: what the bound on the doors of the second scan must tell from the code.
FallbackDoorsFromOne(layout) ==
    LET lengths == [y \in 0 .. layout.h - 1 |-> RowLength(layout, y)]
        candidate(p) == /\ p.y >= 1 /\ p.y < layout.h - 1
                        /\ p.x >= 1 /\ p.x < lengths[p.y] - 1
                        /\ Get(layout, p.x, p.y) = WALL
    IN  SelectSeq(ScanOrder(layout), candidate)

\* The second scan: every wall two cells or more from the edge.  The set
\* "used" is empty when the scan starts, so nothing found by the first scan
\* is skipped.
FallbackDoors(layout) ==
    LET lengths == [y \in 0 .. layout.h - 1 |-> RowLength(layout, y)]
        candidate(p) == /\ p.y >= 2 /\ p.y < layout.h - 2
                        /\ p.x >= 2 /\ p.x < lengths[p.y] - 2
                        /\ Get(layout, p.x, p.y) = WALL
    IN  SelectSeq(ScanOrder(layout), candidate)

\* PotentialDoors without the second scan: what a statement about the number
\* of doors returned must tell from the code.
PotentialDoorsFirstScan(layout, count) == DoorCandidates(layout)

PotentialDoors(layout, count) ==
    LET potentialDoors == DoorCandidates(layout)
    IN  IF Len(potentialDoors) < count
        THEN potentialDoors \o FallbackDoors(layout)
        ELSE potentialDoors

\* potentialDoors.splice(index, 1): a negative index counts from the end.
SpliceIndex(index, length) == IF index < 0 THEN Max2(length + index, 0) ELSE index

RemoveAt(seq, k) == SubSeq(seq, 1, k - 1) \o SubSeq(seq, k + 1, Len(seq))

RECURSIVE SelectDoors(_, _, _, _, _)
SelectDoors(potentialDoors, count, doors, rng, i) ==
    IF ~(i < count /\ Len(doors) < count /\ Len(potentialDoors) > 0)
    THEN [doors |-> doors, rng |-> rng]
    ELSE LET r == LcgStep(rng)
             k == SpliceIndex(RandomIndex(r, Len(potentialDoors)), Len(potentialDoors)) + 1
         IN  SelectDoors(RemoveAt(potentialDoors, k), count,
                         Append(doors, potentialDoors[k]), r, i + 1)

generateDoorPositions(layout, count, rng) ==
    SelectDoors(PotentialDoors(layout, count), count, << >>, rng, 0)

\* An undefined Vector2.
NoPosition == Vec(Undefined, Undefined)

\* Math.min over the distances to the spawn points.
MinDistance(tile, spawnPoints) ==
    LET ds == {Manhattan(spawn, tile) : spawn \in Range(spawnPoints)}
    IN  CHOOSE d \in ds : \A e \in ds : d <= e

\* generateExitPosition without the search: always floorTiles[0].  What the
\* distinctness of exit and spawn points must tell from the code.
generateExitPositionFirst(floorTiles, spawnPoints) ==
    IF Len(floorTiles) = 0 THEN NoPosition ELSE floorTiles[1]

\* ExitTurn with the comparison turned round: what a statement about the
\* distance of the exit from the spawn points must tell from the code.
ExitTurnNearer(tile, spawnPoints, st) ==
    LET minDistance == MinDistance(tile, spawnPoints)
    IN  IF minDistance < st.maxMinDistance
        THEN [bestExit |-> tile, maxMinDistance |-> minDistance]
        ELSE st

\* A turn of the loop over the floor tiles: st holds bestExit and
\* maxMinDistance.
ExitTurn(tile, spawnPoints, st) ==
    LET minDistance == MinDistance(tile, spawnPoints)
    IN  IF minDistance > st.maxMinDistance
        THEN [bestExit |-> tile, maxMinDistance |-> minDistance]
        ELSE st

\* The turns for floorTiles[lo] .. floorTiles[hi], in order; halved so that
\* the evaluation nests no deeper than log n.
RECURSIVE ExitScan(_, _, _, _, _)
ExitScan(floorTiles, spawnPoints, st, lo, hi) ==
    IF st.maxMinDistance < 0 \/ lo > hi THEN st
    ELSE IF lo = hi THEN ExitTurn(floorTiles[lo], spawnPoints, st)
    ELSE ExitScan(floorTiles, spawnPoints,
                  ExitScan(floorTiles, spawnPoints, st, lo, (lo + hi) \div 2),
                  (lo + hi) \div 2 + 1, hi)

\* bestExit starts as floorTiles[0], undefined when there is no floor tile,
\* and maxMinDistance as 0.  Without spawn points Math.min() is Infinity:
\* the first tile replaces bestExit and no later tile does.
generateExitPosition(floorTiles, spawnPoints) ==
    IF Len(floorTiles) = 0 THEN NoPosition
    ELSE IF Len(spawnPoints) = 0 THEN floorTiles[1]
    ELSE ExitScan(floorTiles, spawnPoints,
                  [bestExit |-> floorTiles[1], maxMinDistance |-> 0],
                  1, Len(floorTiles)).bestExit

\* placeSpecialTiles writing FLOOR for DOOR: what a statement about the
\* DOOR cells of the result must tell from the code.
placeSpecialTilesOpen(layout, doorPositions) ==
    PutAll(layout, {<<d.x, d.y>> : d \in Range(doorPositions)}, FLOOR)

placeSpecialTiles(layout, doorPositions) ==
    PutAll(layout, {<<d.x, d.y>> : d \in Range(doorPositions)}, DOOR)

\* ---------------------------------------------------------- state machine
VARIABLES
    ctorSeed,       \* the constructor's argument: [supplied, value]
    options,        \* the argument of generateMaze
    now,            \* the last reading of Date.now()
    seed,           \* this.seed
    rng,            \* the state captured by this.rng
    pc,             \* where generateMaze stands
    mode,           \* how this run was started: first, sameInstance, freshInstance
    layout,
    floorTiles,
    spawnPoints,
    constrained,    \* how many spawn points the constrained phase accepted
    keySpawns,
    doorPositions,
    exitPosition,
    results,        \* what the calls made so far gave their caller
    loop,           \* the locals of the while loop that is running, turn by turn
    calls           \* the methods this run of generateMaze has called, in order

vars == << ctorSeed, options, now, seed, rng, pc, mode, layout, floorTiles,
           spawnPoints, constrained, keySpawns, doorPositions, exitPosition, results,
           loop, calls >>

Dims == (MaxDim - DimSpan) .. MaxDim

\* Date.now() is an integer that never decreases; the model draws it from
\* two values above the explicit seeds.
TimeSeeds == {MaxSeed + 1, MaxSeed + 2}

\* The seeds a caller passes to the constructor.
ExplicitSeeds == (0 .. MaxSeed) \cup {0 - MinSeed, 1 - MinSeed}

RoomPresets == { << Undefined, Undefined, Undefined >>, << 2, 3, 1 >> }

AutomataPresets == { << Undefined, Undefined >>, << 90, 0 >>, << 30, 0 >> }

CavePresets == { Undefined, 90, 100 }

Opt(w, h, a, d, it, mn, mx, rc) ==
    [width |-> w, height |-> h, algorithm |-> a, density |-> d, iterations |-> it,
     minRoomSize |-> mn, maxRoomSize |-> mx, roomCount |-> rc]

OptionSets ==
    UNION { { Opt(w, h, "recursive_backtracking", Undefined, Undefined, r[1], r[2], r[3]) :
                r \in RoomPresets }
            \cup { Opt(w, h, "cellular_automata", c[1], c[2], Undefined, Undefined, Undefined) :
                     c \in AutomataPresets }
            \cup { Opt(w, h, "binary_tree", Undefined, Undefined, Undefined, Undefined, Undefined) }
            \cup { Opt(w, h, "perlin_caves", d, Undefined, Undefined, Undefined, Undefined) :
                     d \in CavePresets }
          : w \in Dims, h \in Dims }

EmptyLayout == [h |-> 0, cells |-> << >>]

\* No while loop is followed turn by turn.
NoLoop == << >>

\* What the caller gets when generateMaze does not return. The source has no
\* throw statement: every failure is the engine's TypeError for a property
\* read from undefined.
Thrown ==
    [threw |-> TRUE, error |-> "TypeError", layout |-> EmptyLayout, spawnPoints |-> << >>,
     keySpawns |-> << >>, doorPositions |-> << >>, exitPosition |-> NoPosition]

Init ==
    /\ ctorSeed \in {[supplied |-> TRUE, value |-> v] : v \in ExplicitSeeds}
                    \cup {[supplied |-> FALSE, value |-> 0]}
    /\ options \in OptionSets
    /\ now = MaxSeed + 1
    /\ seed = 0
    /\ rng = 0
    /\ pc = "new"
    /\ mode = "first"
    /\ layout = EmptyLayout
    /\ floorTiles = << >>
    /\ spawnPoints = << >>
    /\ constrained = 0
    /\ keySpawns = << >>
    /\ doorPositions = << >>
    /\ exitPosition = NoPosition
    /\ results = << >>
    /\ loop = NoLoop
    /\ calls = << >>

\* this.seed = seed || Date.now(); the random source starts from this.seed.
ConstructorSeed(arg, time) == IF arg.supplied /\ arg.value # 0 THEN arg.value ELSE time

Construct(t) ==
    /\ seed' = ConstructorSeed(ctorSeed, t)
    /\ rng' = seed'
    /\ now' = IF seed' = t THEN t ELSE now
    /\ layout' = EmptyLayout
    /\ floorTiles' = << >>
    /\ spawnPoints' = << >>
    /\ constrained' = 0
    /\ keySpawns' = << >>
    /\ doorPositions' = << >>
    /\ exitPosition' = NoPosition
    /\ calls' = << >>
    /\ UNCHANGED << loop, ctorSeed, options >>

\* new MazeGenerator(seed)
New ==
    /\ pc = "new"
    /\ \E t \in TimeSeeds : t >= now /\ Construct(t)
    /\ pc' = "idle"
    /\ UNCHANGED << mode, results >>

\* The caller builds another generator from the same argument.
NewAgain ==
    /\ pc \in {"returned", "threw"}
    /\ Len(results) = 1
    /\ \E t \in TimeSeeds : t >= now /\ Construct(t)
    /\ pc' = "idle"
    /\ mode' = "freshInstance"
    /\ UNCHANGED results

\* The caller calls generateMaze of the same generator again.
CallAgain ==
    /\ pc \in {"returned", "threw"}
    /\ Len(results) = 1
    /\ pc' = "idle"
    /\ mode' = "sameInstance"
    /\ layout' = EmptyLayout
    /\ floorTiles' = << >>
    /\ spawnPoints' = << >>
    /\ constrained' = 0
    /\ keySpawns' = << >>
    /\ doorPositions' = << >>
    /\ exitPosition' = NoPosition
    /\ calls' = << >>
    /\ UNCHANGED << loop, ctorSeed, options, now, seed, rng, results >>

\* What the switch of generateMaze calls: the method of the algorithm and,
\* from generateCellularAutomata alone (line 211), ensureConnectivity.
StrategyCalls(opts) ==
    CASE opts.algorithm = "cellular_automata" ->
            << "generateCellularAutomata", "ensureConnectivity" >>
      [] opts.algorithm = "binary_tree" -> << "generateBinaryTree" >>
      [] opts.algorithm = "perlin_caves" -> << "generatePerlinCaves" >>
      [] OTHER -> << "generateRecursiveBacktracking" >>

\* The algorithm named by options.algorithm.
Strategy(opts, s, r) ==
    CASE opts.algorithm = "cellular_automata" -> generateCellularAutomata(opts, r)
      [] opts.algorithm = "binary_tree" -> generateBinaryTree(opts, r)
      [] opts.algorithm = "perlin_caves" ->
            [layout |-> generatePerlinCaves(opts, s), rng |-> r, threw |-> FALSE]
      [] OTHER -> generateRecursiveBacktracking(opts, r)

Raise ==
    /\ pc' = "threw"
    /\ results' = Append(results, Thrown)

\* generateMaze, lines 48-65: the switch and the strategy it calls.
Carve ==
    /\ pc = "idle"
    /\ LET g == Strategy(options, seed, rng)
       IN  /\ layout' = g.layout
           /\ rng' = g.rng
           /\ IF g.threw THEN Raise ELSE pc' = "carved" /\ UNCHANGED results
    /\ calls' = calls \o StrategyCalls(options)
    /\ UNCHANGED << loop, ctorSeed, options, now, seed, mode, floorTiles, spawnPoints,
                    constrained, keySpawns, doorPositions, exitPosition >>

EnsureBoundaryWalls ==
    /\ pc = "carved"
    /\ layout' = ensureBoundaryWalls(layout)
    /\ pc' = "walled"
    /\ calls' = Append(calls, "ensureBoundaryWalls")
    /\ UNCHANGED << loop, ctorSeed, options, now, seed, rng, mode, floorTiles, spawnPoints,
                    constrained, keySpawns, doorPositions, exitPosition, results >>

FindFloorTiles ==
    /\ pc = "walled"
    /\ floorTiles' = findFloorTiles(layout)
    /\ pc' = "floors"
    /\ calls' = Append(calls, "findFloorTiles")
    /\ UNCHANGED << loop, ctorSeed, options, now, seed, rng, mode, layout, spawnPoints,
                    constrained, keySpawns, doorPositions, exitPosition, results >>

GenerateSpawnPoints ==
    /\ pc = "floors"
    /\ LET g == generateSpawnPoints(floorTiles, 4, rng)
       IN  /\ spawnPoints' = g.spawns
           /\ constrained' = g.constrained
           /\ rng' = g.rng
           /\ IF g.threw THEN Raise ELSE pc' = "spawns" /\ UNCHANGED results
    /\ calls' = Append(calls, "generateSpawnPoints")
    /\ UNCHANGED << loop, ctorSeed, options, now, seed, mode, layout, floorTiles,
                    keySpawns, doorPositions, exitPosition >>

GenerateKeySpawns ==
    /\ pc = "spawns"
    /\ LET g == generateKeySpawns(floorTiles, spawnPoints, 6, rng)
       IN  /\ keySpawns' = g.keys
           /\ rng' = g.rng
           /\ IF g.threw THEN Raise ELSE pc' = "keys" /\ UNCHANGED results
    /\ calls' = Append(calls, "generateKeySpawns")
    /\ UNCHANGED << loop, ctorSeed, options, now, seed, mode, layout, floorTiles,
                    spawnPoints, constrained, doorPositions, exitPosition >>

GenerateDoorPositions ==
    /\ pc = "keys"
    /\ LET g == generateDoorPositions(layout, 3, rng)
       IN  /\ doorPositions' = g.doors
           /\ rng' = g.rng
    /\ pc' = "doors"
    /\ calls' = Append(calls, "generateDoorPositions")
    /\ UNCHANGED << loop, ctorSeed, options, now, seed, mode, layout, floorTiles,
                    spawnPoints, constrained, keySpawns, exitPosition, results >>

\* Line 84 reads exitPosition.x: a TypeError when there is no floor tile.
GenerateExitPosition ==
    /\ pc = "doors"
    /\ exitPosition' = generateExitPosition(floorTiles, spawnPoints)
    /\ IF exitPosition' = NoPosition THEN Raise ELSE pc' = "exit" /\ UNCHANGED results
    /\ calls' = Append(calls, "generateExitPosition")
    /\ UNCHANGED << loop, ctorSeed, options, now, seed, rng, mode, layout, floorTiles,
                    spawnPoints, constrained, keySpawns, doorPositions >>

PlaceSpecialTiles ==
    /\ pc = "exit"
    /\ layout' = placeSpecialTiles(layout, doorPositions)
    /\ pc' = "placed"
    /\ calls' = Append(calls, "placeSpecialTiles")
    /\ UNCHANGED << loop, ctorSeed, options, now, seed, rng, mode, floorTiles, spawnPoints,
                    constrained, keySpawns, doorPositions, exitPosition, results >>

\* Lines 100-110: the MazeData the caller gets.
Return ==
    /\ pc = "placed"
    /\ results' = Append(results,
                         [threw |-> FALSE, error |-> "", layout |-> layout,
                          spawnPoints |-> spawnPoints,
                          keySpawns |-> keySpawns, doorPositions |-> doorPositions,
                          exitPosition |-> exitPosition])
    /\ pc' = "returned"
    /\ UNCHANGED << calls, loop, ctorSeed, options, now, seed, rng, mode, layout, floorTiles,
                    spawnPoints, constrained, keySpawns, doorPositions, exitPosition >>

Next ==
    \/ New
    \/ NewAgain
    \/ CallAgain
    \/ Carve
    \/ EnsureBoundaryWalls
    \/ FindFloorTiles
    \/ GenerateSpawnPoints
    \/ GenerateKeySpawns
    \/ GenerateDoorPositions
    \/ GenerateExitPosition
    \/ PlaceSpecialTiles
    \/ Return

Spec == Init /\ [][Next]_vars

\* ------------------------------------------- generateDoorPositions alone
\* generateDoorPositions is a function of the grid, the requested count and
\* the state of the random source.  DoorSpec applies it, with a requested
\* count of 10, to every grid of DoorGridSizes whose border is WALL, whose
\* interior has DoorGridFloors FLOOR cells at most, the rest WALL, and which
\* has exactly 6 interior WALL cells with a FLOOR neighbour.
DoorGridSizes == {<< 5, 5 >>, << 6, 5 >>, << 5, 6 >>, << 6, 6 >>}

Interior(width, height) == (1 .. width - 2) \X (1 .. height - 2)

DoorGrids ==
    {g \in UNION {{PutAll(FilledLayout(size[1], size[2], WALL), floors, FLOOR) :
                     floors \in {f \in SUBSET Interior(size[1], size[2]) :
                                   Cardinality(f) <= DoorGridFloors}} :
                  size \in DoorGridSizes} :
        Len(DoorCandidates(g)) = 6}

\* States of the random source before the call: one whose successors are
\* all in 0..233279 and one whose successors are negative.
DoorSeeds == {1, 0 - MinSeed}

DoorInit ==
    /\ layout \in DoorGrids
    /\ rng \in DoorSeeds
    /\ seed = rng
    /\ ctorSeed = [supplied |-> TRUE, value |-> rng]
    /\ options = Opt(RowLength(layout, 0), layout.h, "cellular_automata",
                     Undefined, Undefined, Undefined, Undefined, Undefined)
    /\ now = MaxSeed + 1
    /\ pc = "keys"
    /\ mode = "first"
    /\ floorTiles = findFloorTiles(layout)
    /\ spawnPoints = << >>
    /\ constrained = 0
    /\ keySpawns = << >>
    /\ doorPositions = << >>
    /\ exitPosition = NoPosition
    /\ results = << >>
    /\ loop = NoLoop
    /\ calls = << >>

\* generateDoorPositions(layout, floorTiles, 10)
RequestTenDoors ==
    /\ pc = "keys"
    /\ LET g == generateDoorPositions(layout, 10, rng)
       IN  /\ doorPositions' = g.doors
           /\ rng' = g.rng
    /\ pc' = "doors"
    /\ UNCHANGED << calls, loop, ctorSeed, options, now, seed, mode, layout, floorTiles,
                    spawnPoints, constrained, keySpawns, exitPosition, results >>

DoorNext == RequestTenDoors

DoorSpec == DoorInit /\ [][DoorNext]_vars

\* --------------------------------------------- the while loops, by turns
\* LoopSpec follows the three while loops that have no bound of their own,
\* one turn a step: the stack loop of generateRecursiveBacktracking, the
\* flood fills of ensureConnectivity and the loop of generateSpawnPoints that
\* fills the remaining slots.  A run of generateMaze is taken up to the loop
\* it follows, and the loop is entered in the state the run has there.

\* The FLOOR cells no flood fill has visited, as positions in scan order.
FloodStarts(l, visited) ==
    LET width == RowLength(l, 0)
    IN  {k \in 0 .. width * l.h - 1 :
            /\ Get(l, k % width, k \div width) = FLOOR
            /\ Vec(k % width, k \div width) \notin visited}

\* The locals of floodFill called on the first of them.
FloodStart(l, visited) ==
    LET starts == FloodStarts(l, visited)
        k == CHOOSE m \in starts : \A n \in starts : m <= n
    IN  [stack |-> << Vec(k % RowLength(l, 0), k \div RowLength(l, 0)) >>,
         visited |-> visited, region |-> << >>]

\* generateRecursiveBacktracking up to its while loop, lines 117-147.
EnterCarve ==
    /\ pc = "idle"
    /\ options.algorithm = "recursive_backtracking"
    /\ loop' = CarveStart(options, rng)
    /\ pc' = "carving"
    /\ UNCHANGED << calls, ctorSeed, options, now, seed, rng, mode, layout, floorTiles,
                    spawnPoints, constrained, keySpawns, doorPositions, exitPosition,
                    results >>

\* A turn of while (stack.length > 0), lines 148-180.
CarveTurn ==
    /\ pc = "carving"
    /\ Len(loop.stack) > 0 /\ ~loop.threw
    /\ loop' = CarveStep(loop, options.width, options.height)
    /\ UNCHANGED << calls, ctorSeed, options, now, seed, rng, pc, mode, layout, floorTiles,
                    spawnPoints, constrained, keySpawns, doorPositions, exitPosition,
                    results >>

\* The loop is left: the stack is empty, or the turn raised.
CarveExit ==
    /\ pc = "carving"
    /\ Len(loop.stack) = 0 \/ loop.threw
    /\ IF loop.threw THEN Raise ELSE pc' = "carveDone" /\ UNCHANGED results
    /\ layout' = loop.layout
    /\ rng' = loop.rng
    /\ UNCHANGED << calls, loop, ctorSeed, options, now, seed, mode, floorTiles, spawnPoints,
                    constrained, keySpawns, doorPositions, exitPosition >>

\* generateCellularAutomata up to the first flood fill of ensureConnectivity,
\* lines 192-211 and 453-463, on a grid that has a FLOOR cell.
EnterFlood ==
    /\ pc = "idle"
    /\ options.algorithm = "cellular_automata"
    /\ LET smoothed == SmoothedAutomata(options, rng)
       IN  /\ smoothed.layout.h > 0
           /\ FloodStarts(smoothed.layout, {}) # {}
           /\ layout' = smoothed.layout
           /\ rng' = smoothed.rng
           /\ loop' = FloodStart(smoothed.layout, {})
    /\ pc' = "flooding"
    /\ UNCHANGED << calls, ctorSeed, options, now, seed, mode, floorTiles, spawnPoints,
                    constrained, keySpawns, doorPositions, exitPosition, results >>

\* A turn of while (stack.length > 0), lines 488-503.
FloodTurn ==
    /\ pc = "flooding"
    /\ Len(loop.stack) > 0
    /\ loop' = FloodStep(layout, RowLength(layout, 0), loop)
    /\ UNCHANGED << calls, ctorSeed, options, now, seed, rng, pc, mode, layout, floorTiles,
                    spawnPoints, constrained, keySpawns, doorPositions, exitPosition,
                    results >>

\* floodFill returned and the scan of ensureConnectivity finds a FLOOR cell
\* not yet visited: the next flood fill starts there.
FloodAgain ==
    /\ pc = "flooding"
    /\ Len(loop.stack) = 0
    /\ FloodStarts(layout, loop.visited) # {}
    /\ loop' = FloodStart(layout, loop.visited)
    /\ UNCHANGED << calls, ctorSeed, options, now, seed, rng, pc, mode, layout, floorTiles,
                    spawnPoints, constrained, keySpawns, doorPositions, exitPosition,
                    results >>

\* floodFill returned and every FLOOR cell is visited.
FloodExit ==
    /\ pc = "flooding"
    /\ Len(loop.stack) = 0
    /\ FloodStarts(layout, loop.visited) = {}
    /\ pc' = "floodDone"
    /\ UNCHANGED << calls, loop, ctorSeed, options, now, seed, rng, mode, layout, floorTiles,
                    spawnPoints, constrained, keySpawns, doorPositions, exitPosition,
                    results >>

\* generateSpawnPoints up to its second loop, lines 572-602.
EnterRelax ==
    /\ pc = "floors"
    /\ LET first == ConstrainedSpawns(floorTiles, 4, rng)
       IN  /\ loop' = first
           /\ spawnPoints' = first.points
           /\ constrained' = Len(first.points)
           /\ rng' = first.rng
           /\ IF first.threw THEN Raise ELSE pc' = "relaxing" /\ UNCHANGED results
    /\ UNCHANGED << calls, ctorSeed, options, now, seed, mode, layout, floorTiles,
                    keySpawns, doorPositions, exitPosition >>

\* while (spawns.length < count && spawns.length < floorTiles.length)
RelaxCondition == Len(loop.points) < 4 /\ Len(loop.points) < Len(floorTiles)

\* A turn of that loop, lines 606-612.
RelaxTurn ==
    /\ pc = "relaxing"
    /\ RelaxCondition /\ ~loop.threw
    /\ loop' = RelaxedAttempt(floorTiles, loop)
    /\ UNCHANGED << calls, ctorSeed, options, now, seed, rng, pc, mode, layout, floorTiles,
                    spawnPoints, constrained, keySpawns, doorPositions, exitPosition,
                    results >>

\* The loop is left: its condition is false, or the turn raised.
RelaxExit ==
    /\ pc = "relaxing"
    /\ ~RelaxCondition \/ loop.threw
    /\ IF loop.threw THEN Raise ELSE pc' = "relaxDone" /\ UNCHANGED results
    /\ spawnPoints' = loop.points
    /\ rng' = loop.rng
    /\ UNCHANGED << calls, loop, ctorSeed, options, now, seed, mode, layout, floorTiles,
                    constrained, keySpawns, doorPositions, exitPosition >>

\* A step of one of the loops.
LoopStep ==
    \/ CarveTurn
    \/ CarveExit
    \/ FloodTurn
    \/ FloodAgain
    \/ FloodExit
    \/ RelaxTurn
    \/ RelaxExit

LoopNext ==
    \/ New
    \/ Carve
    \/ EnsureBoundaryWalls
    \/ FindFloorTiles
    \/ EnterCarve
    \/ EnterFlood
    \/ EnterRelax
    \/ LoopStep

\* The code is synchronous and runs on one thread: a loop that can take a
\* turn, or be left, does so.
LoopSpec == Init /\ [][LoopNext]_vars /\ WF_vars(LoopStep)

\* ------------------------------------------------ the rooms, one by one
\* RoomSpec follows generateRecursiveBacktracking through its carve loop and
\* then the loop of addRandomRooms, one room a step, for grids of 5 to 7
\* cells a side and room options a caller may pass, a roomCount of 0 among
\* them.
RoomDims == {5, 6, 7}

RoomOptions ==
    { << 2, 2, 0 >>, << 2, 2, 2 >>, << 2, 3, 1 >>, << 2, 3, 3 >>, << 3, 4, 2 >>,
      << 1, 2, 2 >> }

RoomOptionSets ==
    { Opt(w, h, "recursive_backtracking", Undefined, Undefined, r[1], r[2], r[3]) :
        w \in RoomDims, h \in RoomDims, r \in RoomOptions }

RoomInit ==
    /\ ctorSeed \in {[supplied |-> TRUE, value |-> v] : v \in ExplicitSeeds}
                    \cup {[supplied |-> FALSE, value |-> 0]}
    /\ options \in RoomOptionSets
    /\ now = MaxSeed + 1
    /\ seed = 0
    /\ rng = 0
    /\ pc = "new"
    /\ mode = "first"
    /\ layout = EmptyLayout
    /\ floorTiles = << >>
    /\ spawnPoints = << >>
    /\ constrained = 0
    /\ keySpawns = << >>
    /\ doorPositions = << >>
    /\ exitPosition = NoPosition
    /\ results = << >>
    /\ loop = NoLoop
    /\ calls = << >>

\* this.addRandomRooms(layout, options.minRoomSize || 3, options.maxRoomSize
\* || 7, options.roomCount || 3), line 183, up to its loop.
EnterRooms ==
    /\ pc = "carveDone"
    /\ loop' = [i |-> 0, count |-> OrDefault(options.roomCount, 3), rooms |-> << >>,
                threw |-> FALSE]
    /\ pc' = "rooms"
    /\ UNCHANGED << calls, ctorSeed, options, now, seed, rng, mode, layout, floorTiles,
                    spawnPoints, constrained, keySpawns, doorPositions, exitPosition,
                    results >>

\* A turn of for (let i = 0; i < count; i++), lines 375-391.
RoomStep ==
    /\ pc = "rooms"
    /\ loop.i < loop.count /\ ~loop.threw
    /\ LET turn == RoomTurn(layout, rng, RowLength(layout, 0), layout.h,
                            OrDefault(options.minRoomSize, 3),
                            OrDefault(options.maxRoomSize, 7))
       IN  /\ layout' = turn.layout
           /\ rng' = turn.rng
           /\ loop' = [loop EXCEPT !.i = loop.i + 1,
                                   !.rooms = Append(loop.rooms, turn.room),
                                   !.threw = turn.threw]
    /\ UNCHANGED << calls, ctorSeed, options, now, seed, pc, mode, floorTiles,
                    spawnPoints, constrained, keySpawns, doorPositions, exitPosition,
                    results >>

\* The loop is left and generateRecursiveBacktracking returns its layout, or
\* the turn raised.
RoomsExit ==
    /\ pc = "rooms"
    /\ loop.i >= loop.count \/ loop.threw
    /\ IF loop.threw THEN Raise ELSE pc' = "carved" /\ UNCHANGED results
    /\ UNCHANGED << calls, loop, ctorSeed, options, now, seed, rng, mode, layout,
                    floorTiles, spawnPoints, constrained, keySpawns, doorPositions,
                    exitPosition >>

RoomNext ==
    \/ New
    \/ EnterCarve
    \/ CarveTurn
    \/ CarveExit
    \/ EnterRooms
    \/ RoomStep
    \/ RoomsExit

RoomSpec == RoomInit /\ [][RoomNext]_vars

\* ------------------------------------------- the repair, region by region
\* ConnectSpec applies ensureConnectivity to 8x8 grids that hold two or three
\* regions of 12 FLOOR cells, each a rectangle, the first in the corner the
\* scan starts from, and at most one pocket of a single FLOOR cell; no two of
\* them touch.  The regions are found in one step and connected one a step.
Rectangle(x, y, width, height) == (x .. x + width - 1) \X (y .. y + height - 1)

RegionShapes == {<< 4, 3 >>, << 3, 4 >>, << 6, 2 >>, << 2, 6 >>}

RegionRectangles(side) ==
    {Rectangle(r[1], r[2], r[3][1], r[3][2]) :
        r \in {t \in (0 .. side - 1) \X (0 .. side - 1) \X RegionShapes :
                 t[1] + t[3][1] <= side /\ t[2] + t[3][2] <= side}}

Apart(a, b) ==
    \A p \in a, q \in b : Abs(p[1] - q[1]) + Abs(p[2] - q[2]) >= 2

RegionFloors(side) ==
    LET first == {Rectangle(0, 0, shape[1], shape[2]) : shape \in RegionShapes}
        two == {t[1] \cup t[2] :
                  t \in {u \in first \X RegionRectangles(side) : Apart(u[1], u[2])}}
        three == {t[1] \cup t[2] :
                    t \in {u \in two \X RegionRectangles(side) : Apart(u[1], u[2])}}
        regions == two \cup three
        pocket(f) == {{}} \cup {{p} : p \in {q \in Rectangle(0, 0, side, side) :
                                               Apart(f, {q})}}
    IN  UNION {{f \cup k : k \in pocket(f)} : f \in regions}

ConnectGrids(side) ==
    {PutAll(FilledLayout(side, side, WALL), floors, FLOOR) : floors \in RegionFloors(side)}

ConnectInit ==
    /\ layout \in ConnectGrids(8)
    /\ rng = 1
    /\ seed = 1
    /\ ctorSeed = [supplied |-> TRUE, value |-> 1]
    /\ options = Opt(RowLength(layout, 0), layout.h, "cellular_automata",
                     Undefined, Undefined, Undefined, Undefined, Undefined)
    /\ now = MaxSeed + 1
    /\ pc = "grid"
    /\ mode = "first"
    /\ floorTiles = << >>
    /\ spawnPoints = << >>
    /\ constrained = 0
    /\ keySpawns = << >>
    /\ doorPositions = << >>
    /\ exitPosition = NoPosition
    /\ results = << >>
    /\ loop = NoLoop
    /\ calls = << >>

\* ensureConnectivity, lines 453-470: the regions of more than 10 cells.
FindAllRegions ==
    /\ pc = "grid"
    /\ loop' = [regions |-> FindRegions(layout, [visited |-> {}, regions |-> << >>]).regions,
                i |-> 1, original |-> layout, previous |-> layout]
    /\ pc' = "connecting"
    /\ UNCHANGED << calls, ctorSeed, options, now, seed, rng, mode, layout, floorTiles,
                    spawnPoints, constrained, keySpawns, doorPositions, exitPosition,
                    results >>

\* A turn of for (let i = 1; i < regions.length; i++), lines 473-475.
ConnectTurn ==
    /\ pc = "connecting"
    /\ Len(loop.regions) > 1 /\ loop.i < Len(loop.regions)
    /\ layout' = connectRegions(layout, loop.regions[1], loop.regions[loop.i + 1])
    /\ loop' = [loop EXCEPT !.i = loop.i + 1, !.previous = layout]
    /\ UNCHANGED << calls, ctorSeed, options, now, seed, rng, pc, mode, floorTiles,
                    spawnPoints, constrained, keySpawns, doorPositions, exitPosition,
                    results >>

\* ensureConnectivity returns.
ConnectExit ==
    /\ pc = "connecting"
    /\ Len(loop.regions) <= 1 \/ loop.i >= Len(loop.regions)
    /\ pc' = "connected"
    /\ calls' = Append(calls, "ensureConnectivity")
    /\ UNCHANGED << loop, ctorSeed, options, now, seed, rng, mode, layout, floorTiles,
                    spawnPoints, constrained, keySpawns, doorPositions, exitPosition,
                    results >>

ConnectNext ==
    \/ FindAllRegions
    \/ ConnectTurn
    \/ ConnectExit

ConnectSpec == ConnectInit /\ [][ConnectNext]_vars

\* ------------------------------------------------- the two smoothing rules
\* RuleSpec takes the generation loop of generateCellularAutomata (lines
\* 206-208) and the smoothing loop of generatePerlinCaves (lines 277-280)
\* side by side, three rounds each, from one grid: every 5x5 grid whose border
\* is WALL throughout or FLOOR throughout.
RuleGrids ==
    {PutAll(PutAll(FilledLayout(5, 5, border), Interior(5, 5), WALL), floors, FLOOR) :
        border \in {WALL, FLOOR}, floors \in SUBSET Interior(5, 5)}

RuleInit ==
    /\ layout \in RuleGrids
    /\ rng = 1
    /\ seed = 1
    /\ ctorSeed = [supplied |-> TRUE, value |-> 1]
    /\ options = Opt(RowLength(layout, 0), layout.h, "perlin_caves",
                     Undefined, 3, Undefined, Undefined, Undefined)
    /\ now = MaxSeed + 1
    /\ pc = "grid"
    /\ mode = "first"
    /\ floorTiles = << >>
    /\ spawnPoints = << >>
    /\ constrained = 0
    /\ keySpawns = << >>
    /\ doorPositions = << >>
    /\ exitPosition = NoPosition
    /\ results = << >>
    /\ loop = [automata |-> layout, caves |-> layout, rounds |-> 0, previous |-> layout]
    /\ calls = << >>

\* A round of each loop: layout = applyCellularAutomataRules(layout, width,
\* height) in the one, smoothCaves(layout) in the other.
SmoothRound ==
    /\ pc \in {"grid", "smoothing"}
    /\ loop.rounds < 3
    /\ loop' = [automata |-> applyCellularAutomataRules(loop.automata, options.width,
                                                        options.height),
                caves |-> smoothCaves(loop.caves),
                rounds |-> loop.rounds + 1,
                previous |-> loop.automata]
    /\ pc' = "smoothing"
    /\ UNCHANGED << calls, ctorSeed, options, now, seed, rng, mode, layout, floorTiles,
                    spawnPoints, constrained, keySpawns, doorPositions, exitPosition,
                    results >>

RuleNext == SmoothRound

RuleSpec == RuleInit /\ [][RuleNext]_vars

\* -------------------------------------------------------------- properties
\* The border of a grid of the requested size.
Border(width, height) ==
    {p \in (0 .. width - 1) \X (0 .. height - 1) :
        p[1] \in {0, width - 1} \/ p[2] \in {0, height - 1}}

\* The FLOOR cells of a layout.
FloorCells(l) == Range(findFloorTiles(l))

\* The cells of floors a 4-directional walk over floors reaches from frontier,
\* seen being the cells reached before.
RECURSIVE Reach(_, _, _)
Reach(floors, seen, frontier) ==
    LET new == {p \in floors \ seen : \E q \in frontier : Manhattan(p, q) = 1}
    IN  IF new = {} THEN seen ELSE Reach(floors, seen \cup new, new)

ReachFrom(floors, start) == Reach(floors, {start}, {start})

Distinct(seq) == \A i, j \in 1 .. Len(seq) : i # j => seq[i] # seq[j]

WithinConstraints == options.width >= 5 /\ options.height >= 5

\* C1: in a returned layout every cell of row 0, row height-1, column 0 and
\* column width-1 is WALL.
C1_BoundaryWalls ==
    pc = "returned" =>
        \A p \in Border(options.width, options.height) : Get(layout, p[1], p[2]) = WALL

\* C2: in a returned layout, for options within the documented constraints,
\* a 4-directional flood fill from any FLOOR cell visits every FLOOR cell.
C2_Connectivity ==
    (pc = "returned" /\ WithinConstraints) =>
        \A start \in FloorCells(layout) :
            ReachFrom(FloorCells(layout), start) = FloorCells(layout)

\* C3: two generators constructed with the same seed give, for the same
\* options, the same layout, spawn points, key spawns, door positions and exit.
C3_Determinism ==
    (mode = "freshInstance" /\ ctorSeed.supplied /\ Len(results) = 2) =>
        results[1] = results[2]

\* The same, for the seeds other than 0.
NonZeroSeedDeterminism ==
    (mode = "freshInstance" /\ ctorSeed.supplied /\ ctorSeed.value # 0
        /\ Len(results) = 2) =>
        results[1] = results[2]

\* C4: two calls of generateMaze on one generator, with the same options,
\* return the same layout and the same coordinate lists.
C4_NoStateBetweenCalls ==
    (mode = "sameInstance" /\ Len(results) = 2) => results[1] = results[2]

\* The door candidates of the first scan are fewer than the doors asked for,
\* so that the second scan ran.
FallbackRan == Len(DoorCandidates(layout)) < 3

DoorHasFloorNeighbour(d) == HasAdjacentFloor(layout, RowLength(layout, 0), d.x, d.y)

C6_DistinctDoors == pc = "doors" => Distinct(doorPositions)

\* C7: in a result the exit is reached from every spawn point by a walk over
\* 4-adjacent FLOOR cells of the returned layout.
C7_ExitReachable ==
    pc = "returned" =>
        \A spawn \in Range(spawnPoints) :
            exitPosition \in ReachFrom(FloorCells(layout), spawn)

\* C8: in a result the exit is a FLOOR cell of the returned layout, and it
\* is none of the spawn points when the layout has more FLOOR cells than
\* there are spawn points.
C8_ExitOnFloor ==
    pc = "returned" =>
        /\ Get(layout, exitPosition.x, exitPosition.y) = FLOOR
        /\ Cardinality(FloorCells(layout)) > Len(spawnPoints) =>
              exitPosition \notin Range(spawnPoints)

\* A result with four spawn points and more FLOOR cells than that.
C8_Witness ==
    /\ pc = "returned"
    /\ Len(spawnPoints) = 4
    /\ Cardinality(FloorCells(layout)) > Len(spawnPoints)

\* C9: the spawn points the constrained phase accepted are pairwise at
\* Manhattan distance 5 or more.
C9_SpawnSeparation ==
    \A i, j \in 1 .. constrained :
        i # j => Manhattan(spawnPoints[i], spawnPoints[j]) >= 5

\* The constrained phase accepted two spawn points or more.
C9_Witness == pc = "spawns" /\ constrained >= 2

\* C10: with a width or a height below 5 no cell is written and no result is
\* returned.
C10_ConfigurationError ==
    (options.width < 5 \/ options.height < 5) =>
        /\ layout = EmptyLayout
        /\ \A i \in 1 .. Len(results) : results[i].threw

\* C11: when the grid has no FLOOR cell after carving and boundary
\* enforcement, generateMaze aborts without a result, on an error of a kind
\* of its own, which the other failures (all of them TypeErrors) do not have.
C11_InfeasibleError ==
    [][(pc = "floors" /\ floorTiles = << >>) =>
          /\ pc' = "threw"
          /\ results'[Len(results')].threw
          /\ results'[Len(results')].error # "TypeError"]_vars

\* C12: on a grid with a FLOOR cell the placement steps raise no error, and
\* they return at most 4 spawn points, 6 key spawns and 3 door positions.
C12_DegradedPlacement ==
    floorTiles # << >> =>
        /\ pc # "threw"
        /\ Len(spawnPoints) <= 4
        /\ Len(keySpawns) <= 6
        /\ Len(doorPositions) <= 3

Min2(a, b) == IF a <= b THEN a ELSE b

C14_Termination ==
    (pc \in {"carving", "flooding", "relaxing"})
        ~> (pc \in {"carveDone", "floodDone", "relaxDone", "threw"})

\* The loop that fills the remaining spawn slots was left after it had
\* added two spawn points or more.
C14_Witness == pc = "relaxDone" /\ Len(spawnPoints) >= constrained + 2

\* C15: for every integer seed, every value the random source returns lies
\* in [0, 1): the state a call of rng() leaves, which is 233280 times the
\* value returned, lies in 0..233279 (so that floor(rng() * n) is in 0..n-1).
C15_RandomRange ==
    [][(pc \notin {"new", "returned", "threw"} /\ rng' # rng) =>
          (rng' >= 0 /\ rng' < Modulus)]_vars

\* The least Manhattan distance from t to a spawn point of this run.
DistanceToSpawns(t) ==
    LET ds == {Abs(spawnPoints[i].x - t.x) + Abs(spawnPoints[i].y - t.y) :
                  i \in 1 .. Len(spawnPoints)}
    IN  CHOOSE d \in ds : \A e \in ds : d <= e

\* C16: the exit is a max-min choice: no FLOOR cell has a larger least
\* Manhattan distance to the spawn points than the exit has.
C16_ExitMaxMin ==
    (pc \in {"exit", "placed", "returned"} /\ spawnPoints # << >>) =>
        \A t \in FloorCells(layout) :
            DistanceToSpawns(exitPosition) >= DistanceToSpawns(t)

\* A result whose exit is not the first floor tile and is farther from the
\* spawn points than some floor tile that is not a spawn point.
C16_Witness ==
    /\ pc = "returned"
    /\ Len(spawnPoints) = 4
    /\ exitPosition # floorTiles[1]
    /\ \E t \in FloorCells(layout) \ Range(spawnPoints) :
          DistanceToSpawns(t) < DistanceToSpawns(exitPosition)

\* C17: every key spawn is a FLOOR cell, is none of the spawn points and is
\* none of the other key spawns.
C17_KeySpawns ==
    pc \in {"keys", "doors", "exit", "placed", "returned"} =>
        /\ \A i \in 1 .. Len(keySpawns) :
              /\ Get(layout, keySpawns[i].x, keySpawns[i].y) = FLOOR
              /\ \A j \in 1 .. Len(spawnPoints) : keySpawns[i] # spawnPoints[j]
        /\ Distinct(keySpawns)

\* generateKeySpawns returned all six keys, after four spawn points.
C17_Witness == pc = "keys" /\ Len(keySpawns) = 6 /\ Len(spawnPoints) = 4

\* The place of the first call of a method among the calls, 0 when it was not
\* called.
Position(seq, method) ==
    IF \E i \in 1 .. Len(seq) : seq[i] = method
    THEN CHOOSE i \in 1 .. Len(seq) :
            seq[i] = method /\ \A j \in 1 .. i - 1 : seq[j] # method
    ELSE 0

\* C18: for every algorithm, when placement starts the run has called the
\* strategy, then ensureBoundaryWalls, then ensureConnectivity, in that order,
\* and once ensureConnectivity has run no step of the run turns a FLOOR cell
\* into WALL.
C18_PipelineOrder ==
    [][/\ (pc = "walled" /\ pc' = "floors") =>
             /\ 0 < Position(calls', StrategyCalls(options)[1])
             /\ Position(calls', StrategyCalls(options)[1])
                    < Position(calls', "ensureBoundaryWalls")
             /\ Position(calls', "ensureBoundaryWalls")
                    < Position(calls', "ensureConnectivity")
             /\ Position(calls', "ensureConnectivity")
                    < Position(calls', "findFloorTiles")
       /\ (Position(calls, "ensureConnectivity") > 0 /\ calls' # << >>) =>
             \A t \in FloorCells(layout) : Get(layout', t.x, t.y) # WALL]_vars

\* The odd lattice: x and y odd, 0 < x < width - 1, 0 < y < height - 1.
Lattice(width, height) ==
    {Vec(x, y) : x \in {i \in 1 .. width - 2 : i % 2 = 1},
                 y \in {j \in 1 .. height - 2 : j % 2 = 1}}

\* The FLOOR cells of l are a spanning tree of the lattice: they hold every
\* lattice cell, the other FLOOR cells are passages, one fewer than the
\* lattice cells and each between two lattice cells, every FLOOR cell is
\* reached from (1, 1), and none lies on the border.
SpanningTree(l, width, height) ==
    LET floors == FloorCells(l)
        lattice == Lattice(width, height)
        passages == floors \ lattice
    IN  /\ lattice \subseteq floors
        /\ Cardinality(passages) = Cardinality(lattice) - 1
        /\ \A p \in passages :
              \/ {Vec(p.x - 1, p.y), Vec(p.x + 1, p.y)} \subseteq lattice
              \/ {Vec(p.x, p.y - 1), Vec(p.x, p.y + 1)} \subseteq lattice
        /\ ReachFrom(floors, Vec(1, 1)) = floors
        /\ \A p \in floors : /\ p.x > 0 /\ p.x < width - 1
                             /\ p.y > 0 /\ p.y < height - 1

\* The while loop of generateRecursiveBacktracking was left with an empty
\* stack, every lattice cell visited, and a spanning tree carved.
CarvedTree ==
    /\ pc = "carveDone"
    /\ loop.stack = << >>
    /\ loop.visited = Lattice(options.width, options.height)
    /\ SpanningTree(layout, options.width, options.height)

\* C19: the carve loop of generateRecursiveBacktracking, before the rooms, ends
\* with an empty stack, having visited and set to FLOOR every lattice cell, and
\* its FLOOR cells are a spanning tree of the lattice that touches no border
\* cell.
C19_CarveSpanningTree ==
    [][(pc = "carving" /\ pc' # "carving") => CarvedTree']_vars

\* The same for the runs whose loop was left with an empty stack.
CarveDoneTree == pc = "carveDone" => CarvedTree

\* The state the n-th of the next calls of rng() leaves, rng itself for none.
AfterDraws(state, n) == IF n <= 0 THEN state ELSE RandomStream(state, n)[n]

\* Every lattice cell other than (1, 1) has exactly one of its north and
\* west neighbours FLOOR, and the FLOOR cells are a spanning tree of the
\* lattice.
BinaryTreeShape(l, width, height) ==
    /\ SpanningTree(l, width, height)
    /\ \A c \in Lattice(width, height) \ {Vec(1, 1)} :
          (Get(l, c.x, c.y - 1) = FLOOR) # (Get(l, c.x - 1, c.y) = FLOOR)

\* C20: generateBinaryTree returns a layout in which every lattice cell is
\* FLOOR and every lattice cell other than (1, 1) has carved exactly one of
\* its north and west neighbours, the FLOOR cells being a spanning tree of the
\* lattice, after one pass: one call of rng() for each lattice cell other than
\* (1, 1).
C20_BinaryTree ==
    [][(pc = "idle" /\ options.algorithm = "binary_tree" /\ calls' # calls) =>
          /\ pc' = "carved"
          /\ BinaryTreeShape(layout', options.width, options.height)
          /\ rng' = AfterDraws(rng, Cardinality(Lattice(options.width,
                                                        options.height)) - 1)]_vars

\* The same for the calls of generateBinaryTree that return.
BinaryTreeReturned ==
    (options.algorithm = "binary_tree" /\ pc = "carved") =>
        BinaryTreeShape(layout, options.width, options.height)

\* The WALL cells among the 8 neighbours of (x, y) in l, a neighbour outside
\* the grid counting as WALL and the cell itself not counting.
WallNeighbours(l, x, y, width, height) ==
    Cardinality({d \in Offsets \ {<< 0, 0 >>} :
        \/ x + d[1] < 0 \/ x + d[1] >= width
        \/ y + d[2] < 0 \/ y + d[2] >= height
        \/ Get(l, x + d[1], y + d[2]) = WALL})

\* C21: a step of applyCellularAutomataRules makes a cell WALL exactly when at
\* least 5 of its 8 neighbours are WALL in the generation before, neighbours
\* outside the grid counting as WALL and the cell itself not counting; every
\* other cell becomes FLOOR.
C21_AutomataRule ==
    pc = "smoothing" =>
        \A p \in (0 .. options.width - 1) \X (0 .. options.height - 1) :
            Get(loop.automata, p[1], p[2]) =
                IF WallNeighbours(loop.previous, p[1], p[2], options.width,
                                  options.height) >= 5
                THEN WALL ELSE FLOOR

\* C22: three rounds of smoothCaves give the grid that three rounds of
\* applyCellularAutomataRules give, for every grid, and so the same layout
\* after ensureBoundaryWalls.
C22_SameSmoothing ==
    (pc = "smoothing" /\ loop.rounds = 3) =>
        /\ loop.caves = loop.automata
        /\ ensureBoundaryWalls(loop.caves) = ensureBoundaryWalls(loop.automata)

\* The call of generateRecursiveBacktracking has ended, by a return or by a
\* TypeError, and nothing else of the run has been called.
BacktrackingEnded ==
    /\ options.algorithm = "recursive_backtracking"
    /\ calls = << "generateRecursiveBacktracking" >>

\* C23: for options within the documented constraints, addRandomRooms and
\* connectRoomToMaze write no index outside the grid and no border cell: the
\* layout has the cells of the grid and no other, and its border is as the
\* carve loop left it, WALL.
C23_RoomsInsideBorder ==
    (BacktrackingEnded /\ WithinConstraints) =>
        /\ DOMAIN layout.cells = (0 .. options.width - 1) \X (0 .. options.height - 1)
        /\ \A p \in Border(options.width, options.height) :
              Get(layout, p[1], p[2]) = WALL

\* The rooms generateRecursiveBacktracking must inject: options.roomCount,
\* 3 when the caller gave none.
RoomsRequested == IF options.roomCount = Undefined THEN 3 ELSE options.roomCount

\* The cells of a room.
RoomCells(room) ==
    (room.x .. room.x + room.width - 1) \X (room.y .. room.y + room.height - 1)

\* C24: generateRecursiveBacktracking injects exactly options.roomCount rooms,
\* none when roomCount is 0, each a rectangle whose width and height lie in
\* [minRoomSize, maxRoomSize] and whose cells are all FLOOR in the grid
\* returned.
C24_RoomsInjected ==
    (pc = "carved" /\ loop # NoLoop) =>
        /\ Len(loop.rooms) = RoomsRequested
        /\ \A k \in 1 .. Len(loop.rooms) :
              /\ loop.rooms[k].width >= options.minRoomSize
              /\ loop.rooms[k].width <= options.maxRoomSize
              /\ loop.rooms[k].height >= options.minRoomSize
              /\ loop.rooms[k].height <= options.maxRoomSize
              /\ \A p \in RoomCells(loop.rooms[k]) : Get(layout, p[1], p[2]) = FLOOR

\* The rooms fit in the interior and are at least 2 cells a side.
RoomsFit ==
    /\ options.minRoomSize >= 2
    /\ options.width >= options.maxRoomSize + 3
    /\ options.height >= options.maxRoomSize + 3

\* C30: for recursive backtracking with minRoomSize >= 2, width >=
\* maxRoomSize + 3 and height >= maxRoomSize + 3, the FLOOR cells of the grid
\* generateRecursiveBacktracking returns are one 4-connected component.
C30_RoomsConnected ==
    (pc = "carved" /\ loop # NoLoop /\ RoomsFit) =>
        ReachFrom(FloorCells(layout), Vec(1, 1)) = FloorCells(layout)

\* generateRecursiveBacktracking returned a grid with three rooms that fit,
\* one of them with a cell that is no cell of the lattice or between two
\* cells of it, so that the carve loop cannot have opened it.
C30_Witness ==
    /\ pc = "carved" /\ loop # NoLoop /\ RoomsFit
    /\ Len(loop.rooms) = 3
    /\ \E p \in FloorCells(layout) : p.x % 2 = 0 /\ p.y % 2 = 0

\* The cells of floors that lie in a 4-connected region of more than 10
\* cells, region after region.
RECURSIVE LargeRegionCells(_)
LargeRegionCells(floors) ==
    IF floors = {} THEN {}
    ELSE LET region == ReachFrom(floors, CHOOSE p \in floors : TRUE)
         IN  (IF Cardinality(region) > 10 THEN region ELSE {})
             \cup LargeRegionCells(floors \ region)

\* The L-shaped path from p1 to p2: along row p1.y from p1.x to p2.x, then
\* along column p2.x from p1.y to p2.y.
Tunnel(p1, p2) ==
    {Vec(x, p1.y) : x \in IF p1.x <= p2.x THEN p1.x .. p2.x ELSE p2.x .. p1.x}
    \cup {Vec(p2.x, y) : y \in IF p1.y <= p2.y THEN p1.y .. p2.y ELSE p2.y .. p1.y}

\* C25: when ensureConnectivity returns, the FLOOR cells that lay in regions
\* of more than 10 cells before the call are in one 4-connected component,
\* and every tunnel carved on the way runs between two such cells: no cell
\* of a region of 10 cells or fewer is an end of it.
C25_LargeRegionsConnected ==
    LET large == LargeRegionCells(FloorCells(loop.original))
        before == FloorCells(loop.previous)
        after == FloorCells(layout)
    IN  /\ (pc = "connecting" /\ loop.i > 1) =>
              \E p1 \in large, p2 \in large : after = before \cup Tunnel(p1, p2)
        /\ pc = "connected" =>
              large = {} \/ \E p \in large : large \subseteq ReachFrom(after, p)

\* ensureConnectivity returned after it joined three regions of a grid that
\* has a pocket as well.
C25_Witness ==
    /\ pc = "connected"
    /\ Len(loop.regions) = 3
    /\ FloorCells(loop.original) # LargeRegionCells(FloorCells(loop.original))
    /\ layout # loop.original

\* C26: connectRegions(base, candidate) carves between a cell p1 of base and
\* a cell p2 of candidate that no pair of the two regions is closer than, in
\* Manhattan distance, and the cells it sets to FLOOR are those of the path
\* along row p1.y from p1.x to p2.x and then along column p2.x from p1.y to
\* p2.y, all of them.
C26_ClosestPairTunnel ==
    (pc = "connecting" /\ loop.i > 1) =>
        LET base == Range(loop.regions[1])
            candidate == Range(loop.regions[loop.i])
            distances == {Manhattan(q1, q2) : q1 \in base, q2 \in candidate}
            least == CHOOSE d \in distances : \A e \in distances : d <= e
            before == FloorCells(loop.previous)
            after == FloorCells(layout)
        IN  \E p1 \in base, p2 \in candidate :
                /\ Manhattan(p1, p2) = least
                /\ after = before \cup Tunnel(p1, p2)

\* connectRegions carved a path that has a bend: two of the cells it opened
\* differ in both coordinates.
C26_Witness ==
    /\ pc = "connecting" /\ loop.i > 1
    /\ \E a, b \in FloorCells(layout) \ FloorCells(loop.previous) :
          a.x # b.x /\ a.y # b.y

\* The last method the run has called is generateSpawnPoints: the call has
\* returned or raised.
SpawnPointsEnded == calls # << >> /\ calls[Len(calls)] = "generateSpawnPoints"

\* C27: generateSpawnPoints(floorTiles, 4) returns min(4, number of floor
\* cells) spawn points, all of them FLOOR cells and pairwise distinct, and
\* those accepted before the constrained attempts were exhausted are pairwise
\* 5 or more apart.
C27_SpawnPoints ==
    SpawnPointsEnded =>
        /\ pc = "spawns"
        /\ Len(spawnPoints) = Min2(4, Len(floorTiles))
        /\ \A i \in 1 .. Len(spawnPoints) :
              Get(layout, spawnPoints[i].x, spawnPoints[i].y) = FLOOR
        /\ Distinct(spawnPoints)
        /\ \A i, j \in 1 .. constrained :
              i # j => Manhattan(spawnPoints[i], spawnPoints[j]) >= 5

\* C28: the bake changes the cells at doorPositions, to DOOR, and no other
\* cell; no spawn, key or exit position is written, so that the layout holds
\* only WALL, FLOOR and DOOR and its DOOR cells are the coordinates in
\* doorPositions.
C28_BakeFrame ==
    [][pc = "exit" =>
          /\ pc' = "placed"
          /\ DOMAIN layout'.cells = DOMAIN layout.cells
          /\ \A p \in DOMAIN layout.cells :
                layout'.cells[p] = IF Vec(p[1], p[2]) \in Range(doorPositions)
                                   THEN DOOR ELSE layout.cells[p]
          /\ \A p \in DOMAIN layout'.cells : layout'.cells[p] \in {WALL, FLOOR, DOOR}
          /\ {Vec(p[1], p[2]) : p \in {q \in DOMAIN layout'.cells : layout'.cells[q] = DOOR}}
                = Range(doorPositions)]_vars

\* A baked layout with three doors, whose spawn, key and exit cells are FLOOR
\* as before.
C28_Witness ==
    /\ pc = "placed"
    /\ Len(doorPositions) = 3
    /\ Len(spawnPoints) = 4 /\ Len(keySpawns) > 0
    /\ \A t \in Range(spawnPoints) \cup Range(keySpawns) \cup {exitPosition} :
          Get(layout, t.x, t.y) = FLOOR

\* C29: a generator constructed with an explicit integer seed, 0 included,
\* has that seed as the first state of its random source, and one
\* constructed without a seed has a reading of the clock.
C29_ExplicitSeed ==
    (pc = "idle" /\ calls = << >> /\ mode # "sameInstance") =>
        /\ rng = seed
        /\ ctorSeed.supplied => seed = ctorSeed.value
        /\ ~ctorSeed.supplied => seed \in TimeSeeds

====
